---- MODULE Spec2Model ----
(***************************************************************************)
(* Federated search aggregator: fan-out orchestration, deduplication,      *)
(* ranking, query-intent classification and the HTTP boundary of           *)
(* indexio-crawler.                                                        *)
(*                                                                         *)
(* Numbers: every score, weight and confidence is a fixed-point integer in *)
(* units of 1/Unit (Unit = 1 000 000), so 0.98 is 980000.  The inputs are  *)
(* chosen so that every product and quotient of the code is exact in these *)
(* units; IEEE rounding of the JavaScript doubles is not modelled.  The    *)
(* classifier keeps a pattern score as the fraction matches / count and    *)
(* rounds only the confidence it returns down to 1/Unit.                   *)
(***************************************************************************)
EXTENDS Integers, Sequences, FiniteSets, TLC

VARIABLES
    mInput,      \* mergeResults: the argument resultsBySource (a list of lists)
    mOutput,     \* mergeResults: the returned list
    mAgain,      \* mergeResults applied to [mOutput]
    mPc,         \* "off" | "input" | "merged" | "remerged"
    rkQuery,     \* fullRankingPipeline: query (token list)
    rkIntent,    \* fullRankingPipeline: intent
    rkSemantic,  \* useEmbeddings && process.env.OPENAI_API_KEY
    rkInput,     \* the results handed to mergeResults
    rkMerged,    \* the merged list handed to fullRankingPipeline
    rkRanked,    \* the list after rankResults (first pass)
    rkFinal,     \* the list fullRankingPipeline returns
    rkCap,       \* diversifyResults: maxPerSource
    rkDiverse,   \* the list diversifyResults returns
    rkReply,     \* what getEmbeddings came back with: "none" | "null" | "short" | "full"
    rkPc         \* "off" | "input" | "merged" | "embedding" | "done" | "threw" | "diversified"

VARIABLES
    enabled,     \* sourceAdapters[s].config.enabled, per registered source
    apiKey,      \* process.env.OPENAI_API_KEY is set
    req,         \* the HTTP request being served (NoRequest before it arrives)
    apiPc,       \* where the route handler is suspended
    apiIntent,      \* the QueryIntent of the request
    calls,       \* the adapter calls in flight: one record per invocation
    sa,          \* the promise of searchAllSources and what it resolved with
    ranked,      \* fullRankingPipeline: the first-pass list while it awaits
    resp,        \* the HTTP response (NoResponse until it is sent)
    cacheStore,  \* the MemoryCache singleton: key -> entry
    hist         \* what has been done so far: cache reads, classifications, adapter invocations

VARIABLES
    ciQuery,     \* the query handed to the classifier (its characters)
    ciKey,       \* process.env.OPENAI_API_KEY is set
    ciLocal,     \* what classifyIntentLocal(query) returned
    ciReply,     \* what the chat-completions call of classifyIntentWithAI answered
    ciResult,    \* how classifyIntentWithAI(query) ended
    ciPc         \* "off" | "start" | "local" | "awaiting" | "returned"

VARIABLES
    sgQuery,     \* the partial query handed to the suggestions (its characters)
    sgLimit,     \* the limit the caller asked for
    sgVia,       \* "function": generateSuggestions is called; "endpoint": GET /api/suggestions
    sgRemote,    \* useAI && process.env.OPENAI_API_KEY
    sgResult,    \* the suggestions returned
    sgPc         \* "off" | "start" | "awaiting" | "done"

VARIABLES
    mcCache,     \* MemoryCache: the Map from key to {data, timestamp, ttl}
    mcNow,       \* what Date.now() returns
    mcWritten,   \* per key, the last call of set: its data, its time, its ttl
    mcLast       \* the last call of get or set and what it returned

VARIABLES
    hkRequests,  \* useSearch: one record per call of search() that reached fetch
    hkAbortControllerRef,  \* abortControllerRef.current: the request it belongs to, 0 for null
    hkResults,   \* results: the request whose data.results is shown, 0 for []
    hkResponse,  \* response: the request whose data is shown, 0 for null
    hkError,     \* error: the request whose failure is shown, 0 for null
    hkIsLoading  \* isLoading

mergeVars == <<mInput, mOutput, mAgain, mPc>>

rankVars ==
    <<rkQuery, rkIntent, rkSemantic, rkInput, rkMerged, rkRanked, rkFinal, rkCap, rkDiverse, rkReply,
      rkPc>>

apiVars == <<enabled, apiKey, req, apiPc, apiIntent, calls, sa, ranked, resp, cacheStore, hist>>

intentVars == <<ciQuery, ciKey, ciLocal, ciReply, ciResult, ciPc>>

suggestVars == <<sgQuery, sgLimit, sgVia, sgRemote, sgResult, sgPc>>

cacheVars == <<mcCache, mcNow, mcWritten, mcLast>>

\* the variables of the parts that run on their own
hookVars == <<hkRequests, hkAbortControllerRef, hkResults, hkResponse, hkError, hkIsLoading>>

\* the variables of the parts that run on their own
moreVars == <<suggestVars, cacheVars, hookVars>>

vars == <<mergeVars, rankVars, apiVars, intentVars, moreVars>>

(***************************************************************************)
(* Each specification below runs one part of the program; the variables of *)
(* the other parts stay at these values.                                   *)
(***************************************************************************)
MergeIdle ==
    /\ mInput = <<>>
    /\ mOutput = <<>>
    /\ mAgain = <<>>
    /\ mPc = "off"

RankIdle ==
    /\ rkQuery = <<>>
    /\ rkIntent = [type |-> "general", confidence |-> 0]
    /\ rkSemantic = FALSE
    /\ rkInput = <<>>
    /\ rkMerged = <<>>
    /\ rkRanked = <<>>
    /\ rkFinal = <<>>
    /\ rkCap = 0
    /\ rkDiverse = <<>>
    /\ rkReply = "none"
    /\ rkPc = "off"

IntentIdle ==
    /\ ciQuery = <<>>
    /\ ciKey = FALSE
    /\ ciLocal = [type |-> "none", confidence |-> 0]
    /\ ciReply = [kind |-> "none"]
    /\ ciResult = [state |-> "none"]
    /\ ciPc = "off"

SuggestIdle ==
    /\ sgQuery = <<>>
    /\ sgLimit = 0
    /\ sgVia = "none"
    /\ sgRemote = FALSE
    /\ sgResult = <<>>
    /\ sgPc = "off"

NoCacheCall == [op |-> "none"]

CacheIdle ==
    /\ mcCache = <<>>
    /\ mcNow = 0
    /\ mcWritten = <<>>
    /\ mcLast = NoCacheCall

HookIdle ==
    /\ hkRequests = <<>>
    /\ hkAbortControllerRef = 0
    /\ hkResults = 0
    /\ hkResponse = 0
    /\ hkError = 0
    /\ hkIsLoading = FALSE

MoreIdle == SuggestIdle /\ CacheIdle /\ HookIdle

NoRequest == [kind |-> "none"]

NoResponse == [status |-> 0]

NoIntent == [type |-> "none", confidence |-> 0]

NoSearch == [state |-> "none"]

NoHistory == [cacheReads |-> 0, classifications |-> 0, invoked |-> <<>>]

ApiIdle ==
    /\ enabled = <<>>
    /\ apiKey = FALSE
    /\ req = NoRequest
    /\ apiPc = "off"
    /\ apiIntent = NoIntent
    /\ calls = <<>>
    /\ sa = NoSearch
    /\ ranked = <<>>
    /\ resp = NoResponse
    /\ cacheStore = <<>>
    /\ hist = NoHistory

(***************************************************************************)
(* Bounds of the model                                                     *)
(***************************************************************************)
MaxResults == 3      \* results in the flattened input of one merge
MaxRanked == 2       \* results handed to one run of the ranking pipeline

(***************************************************************************)
(* Generic helpers                                                         *)
(***************************************************************************)
Unit == 1000000

Range(s) == {s[i] : i \in 1..Len(s)}

\* Op applied to the value of x: x is evaluated once, before Op uses it (an
\* operator's argument is otherwise evaluated again wherever Op mentions it)
WithValue(x, Op(_)) == CHOOSE r \in {Op(v) : v \in {x}} : TRUE

RECURSIVE Flat(_)
\* Array.prototype.flat() on a list of lists
Flat(ls) == IF ls = <<>> THEN <<>> ELSE Head(ls) \o Flat(Tail(ls))

\* Array.prototype.slice(0, end) for an integer end (negative counts from the end)
Slice0(s, end) ==
    WithValue(s, LAMBDA arr :
        LET n == Len(arr)
            k == IF end < 0 THEN (IF n + end < 0 THEN 0 ELSE n + end)
                 ELSE (IF end > n THEN n ELSE end)
        IN  SubSeq(arr, 1, k))

\* String.prototype.toLowerCase on one token of the vocabulary
ToLower(t) ==
    CASE t = "Rust" -> "rust"
      [] t = "Book" -> "book"
      [] OTHER -> t

\* a text is the token list text.split(/\s+/) would give; its lowercase tokens
LowerTokens(text) == {ToLower(text[i]) : i \in 1..Len(text)}

RECURSIVE TextLength(_)
\* String.length of the text: the tokens joined by single spaces
TextLength(text) ==
    IF text = <<>> THEN 0
    ELSE IF Len(text) = 1 THEN Len(text[1])
    ELSE Len(Head(text)) + 1 + TextLength(Tail(text))

(***************************************************************************)
(* lib/utils/dedup.ts                                                      *)
(***************************************************************************)
NoScore == -1        \* score is undefined
NoTimestamp == 0     \* timestamp is undefined

\* parsed.hostname: the URL parser lower-cases the host labels
Hostname(url) == [i \in 1..Len(url.host) |-> ToLower(url.host[i])]

\* hostname.replace(/^www\./, '')
StripWww(labels) ==
    IF Len(labels) > 1 /\ labels[1] = "www" THEN Tail(labels) ELSE labels

\* pathname.replace(/\/$/, ''): a pathname is its list of segments after each
\* "/", so "/p/" is <<"p", "">> and "/" is <<"">>
StripTrailingSlash(pathname) ==
    IF pathname # <<>> /\ pathname[Len(pathname)] = ""
    THEN SubSeq(pathname, 1, Len(pathname) - 1)
    ELSE pathname

\* hostname without "www.", pathname without one trailing slash, then the
\* query string; the scheme is dropped
normalizeUrl(url) ==
    [host   |-> StripWww(Hostname(url)),
     path   |-> StripTrailingSlash(url.pathname),
     search |-> url.search]

\* text.toLowerCase().replace(/\s+/g, ' ').trim()
normalizeText(text) == [i \in 1..Len(text) |-> ToLower(text[i])]

\* |A \cap B| / |A \cup B| as the pair <<numerator, denominator>>
jaccardSimilarity(a, b) ==
    LET setA == LowerTokens(a)
        setB == LowerTokens(b)
    IN  <<Cardinality(setA \cap setB), Cardinality(setA \cup setB)>>

\* ratio > tenths/10
RatioAbove(ratio, tenths) == 10 * ratio[1] > tenths * ratio[2]

areDuplicates(a, b) ==
    \/ normalizeUrl(a.url) = normalizeUrl(b.url)
    \/ /\ a.source = b.source
       /\ RatioAbove(jaccardSimilarity(a.title, b.title), 8)
    \/ /\ normalizeText(a.title) = normalizeText(b.title)
       /\ RatioAbove(jaccardSimilarity(a.description, b.description), 6)

\* score ?? 0
ScoreOrZero(r) == IF r.score = NoScore THEN 0 ELSE r.score

\* deduplicated.findIndex(r => areDuplicates(r, result)); 0 stands for -1
FindDuplicateIndex(deduplicated, result) ==
    LET hits == {i \in 1..Len(deduplicated) : areDuplicates(deduplicated[i], result)}
    IN  IF hits = {} THEN 0 ELSE CHOOSE i \in hits : \A j \in hits : i <= j

\* the loop body without the comparison: the accepted result always stays
DedupStepFirstWins(deduplicated, result) ==
    IF FindDuplicateIndex(deduplicated, result) = 0
    THEN Append(deduplicated, result)
    ELSE deduplicated

\* the loop body with the push outside the if: a duplicate that wins is stored
\* in place and pushed as well
DedupStepPushToo(deduplicated, result) ==
    LET existingIndex == FindDuplicateIndex(deduplicated, result)
    IN  IF existingIndex = 0 THEN Append(deduplicated, result)
        ELSE LET existing == deduplicated[existingIndex]
             IN  IF \/ ScoreOrZero(result) > ScoreOrZero(existing)
                    \/ /\ ScoreOrZero(result) = ScoreOrZero(existing)
                       /\ TextLength(result.description) > TextLength(existing.description)
                 THEN Append([deduplicated EXCEPT ![existingIndex] = result], result)
                 ELSE deduplicated

\* the body of the for loop of deduplicateResults
DedupStep(deduplicated, result) ==
    LET existingIndex == FindDuplicateIndex(deduplicated, result)
    IN  IF existingIndex = 0 THEN Append(deduplicated, result)
        ELSE LET existing == deduplicated[existingIndex]
                 existingScore == ScoreOrZero(existing)
                 newScore == ScoreOrZero(result)
             IN  IF \/ newScore > existingScore
                    \/ /\ newScore = existingScore
                       /\ TextLength(result.description) > TextLength(existing.description)
                 THEN [deduplicated EXCEPT ![existingIndex] = result]
                 ELSE deduplicated

RECURSIVE DedupLoop(_, _)
DedupLoop(deduplicated, rest) ==
    IF rest = <<>> THEN deduplicated
    ELSE WithValue(DedupStep(deduplicated, Head(rest)), LAMBDA next :
             WithValue(Tail(rest), LAMBDA others : DedupLoop(next, others)))

deduplicateResults(results) == WithValue(results, LAMBDA all : DedupLoop(<<>>, all))

\* the comparator of mergeResults: negative when a sorts before b
MergeCompare(a, b) ==
    LET scoreA == ScoreOrZero(a)
        scoreB == ScoreOrZero(b)
    IN  IF scoreA # scoreB THEN scoreB - scoreA
        ELSE IF a.timestamp # NoTimestamp /\ b.timestamp # NoTimestamp
             THEN b.timestamp - a.timestamp
             ELSE 0

\* the comparator (a, b) => (b.score || 0) - (a.score || 0) of the ranking stages
ScoreCompare(a, b) ==
    (IF b.score = NoScore THEN 0 ELSE b.score) - (IF a.score = NoScore THEN 0 ELSE a.score)

\* the comparator (a, b) => b[1] - a[1] of the classifier's scores, each score
\* kept as matches / count: the sign of b's score minus a's
IntentCompare(a, b) == b.matches * a.count - a.matches * b.count

\* the comparator (a, b) => b.confidence - a.confidence of the suggestions
ConfidenceCompare(a, b) == b.confidence - a.confidence

Compare(kind, a, b) ==
    IF kind = "merge" THEN MergeCompare(a, b)
    ELSE IF kind = "intent" THEN IntentCompare(a, b)
    ELSE IF kind = "confidence" THEN ConfidenceCompare(a, b)
    ELSE ScoreCompare(a, b)

(***************************************************************************)
(* Array.prototype.sort as the runtime (V8) runs it on an array shorter    *)
(* than 64: the leading run is counted (and reversed when it is strictly   *)
(* descending), the rest is inserted by binary insertion.                  *)
(***************************************************************************)
RECURSIVE RunEnd(_, _, _, _)
\* the last index of the run that starts at 1, scanning from index idx
RunEnd(kind, arr, idx, isDescending) ==
    IF idx > Len(arr) THEN Len(arr)
    ELSE LET order == Compare(kind, arr[idx], arr[idx - 1])
         IN  IF (isDescending /\ order >= 0) \/ (~isDescending /\ order < 0)
             THEN idx - 1
             ELSE RunEnd(kind, arr, idx + 1, isDescending)

Reverse(s) == [i \in 1..Len(s) |-> s[Len(s) + 1 - i]]

RECURSIVE BinarySearch(_, _, _, _, _)
\* the insertion point of pivot in arr[1..right] (0-based left, right)
BinarySearch(kind, arr, pivot, left, right) ==
    IF left >= right THEN left
    ELSE LET mid == left + ((right - left) \div 2)
         IN  IF Compare(kind, pivot, arr[mid + 1]) < 0
             THEN BinarySearch(kind, arr, pivot, left, mid)
             ELSE BinarySearch(kind, arr, pivot, mid + 1, right)

RECURSIVE BinaryInsertionSort(_, _, _)
\* arr[1..start-1] is sorted; insert arr[start..]
BinaryInsertionSort(kind, arr, start) ==
    IF start > Len(arr) THEN arr
    ELSE LET pivot == arr[start]
             left == BinarySearch(kind, arr, pivot, 0, start - 1)
             placed == SubSeq(arr, 1, left) \o <<pivot>> \o SubSeq(arr, left + 1, start - 1)
                          \o SubSeq(arr, start + 1, Len(arr))
         IN  WithValue(placed, LAMBDA next :
                 WithValue(start + 1, LAMBDA from : BinaryInsertionSort(kind, next, from)))

\* the sort on an array that is a value already
SortArray(kind, arr) ==
    IF Len(arr) < 2 THEN arr
    ELSE LET isDescending == Compare(kind, arr[2], arr[1]) < 0
         IN  WithValue(RunEnd(kind, arr, 3, isDescending), LAMBDA runLength :
                 LET run == IF isDescending
                            THEN Reverse(SubSeq(arr, 1, runLength))
                                     \o SubSeq(arr, runLength + 1, Len(arr))
                            ELSE arr
                 IN  WithValue(run, LAMBDA first :
                         BinaryInsertionSort(kind, first, runLength + 1)))

ArraySort(kind, arr) == WithValue(arr, LAMBDA a : SortArray(kind, a))

mergeResults(resultsBySource) ==
    ArraySort("merge", deduplicateResults(Flat(resultsBySource)))

(***************************************************************************)
(* lib/nlp/ranking.ts                                                      *)
(***************************************************************************)
\* sourceTrustScores
sourceTrustScores ==
    [wikipedia |-> 950000,
     wikidata |-> 900000,
     duckduckgo |-> 750000,
     googlecse |-> 900000,
     archive |-> 800000,
     github |-> 850000,
     stackoverflow |-> 850000,
     devto |-> 750000,
     lobsters |-> 700000,
     npm |-> 800000,
     pypi |-> 800000,
     hackernews |-> 700000,
     reddit |-> 600000,
     news |-> 700000,
     whois |-> 900000,
     dns |-> 900000,
     cve |-> 950000,
     company |-> 850000,
     sec |-> 950000,
     username |-> 700000,
     ipgeo |-> 850000,
     arxiv |-> 950000,
     pubmed |-> 950000,
     crossref |-> 950000,
     worldbank |-> 900000,
     who |-> 950000,
     census |-> 900000]

\* defaultRelevance
defaultRelevance ==
    [wikipedia |-> 500000,
     wikidata |-> 500000,
     duckduckgo |-> 500000,
     googlecse |-> 500000,
     archive |-> 400000,
     github |-> 400000,
     stackoverflow |-> 400000,
     devto |-> 400000,
     lobsters |-> 400000,
     npm |-> 300000,
     pypi |-> 300000,
     hackernews |-> 400000,
     reddit |-> 400000,
     news |-> 400000,
     whois |-> 300000,
     dns |-> 300000,
     cve |-> 300000,
     company |-> 400000,
     sec |-> 300000,
     username |-> 300000,
     ipgeo |-> 300000,
     arxiv |-> 400000,
     pubmed |-> 400000,
     crossref |-> 400000,
     worldbank |-> 400000,
     who |-> 400000,
     census |-> 400000]

\* intentSourceRelevance
intentSourceRelevance ==
    [general |-> [googlecse |-> 1000000, wikipedia |-> 950000, duckduckgo |-> 900000, hackernews |-> 700000, reddit |-> 600000, wikidata |-> 800000, archive |-> 500000, news |-> 600000, devto |-> 500000, lobsters |-> 500000],
     tech |-> [github |-> 1000000, stackoverflow |-> 1000000, npm |-> 900000, pypi |-> 900000, devto |-> 850000, hackernews |-> 800000, lobsters |-> 800000, googlecse |-> 700000, wikipedia |-> 600000, reddit |-> 700000],
     security |-> [cve |-> 1000000, ipgeo |-> 900000, github |-> 800000, whois |-> 700000, dns |-> 700000, hackernews |-> 700000, reddit |-> 600000, googlecse |-> 600000, archive |-> 500000, lobsters |-> 600000],
     domain |-> [whois |-> 1000000, dns |-> 1000000, archive |-> 900000, ipgeo |-> 700000, cve |-> 500000, googlecse |-> 500000, company |-> 400000, sec |-> 300000],
     company |-> [company |-> 1000000, sec |-> 1000000, wikipedia |-> 800000, googlecse |-> 800000, news |-> 800000, hackernews |-> 700000, reddit |-> 600000, wikidata |-> 700000, worldbank |-> 500000, archive |-> 500000],
     person |-> [wikipedia |-> 1000000, wikidata |-> 900000, username |-> 900000, googlecse |-> 800000, reddit |-> 700000, hackernews |-> 600000, github |-> 600000, news |-> 700000],
     research |-> [arxiv |-> 1000000, pubmed |-> 1000000, crossref |-> 1000000, worldbank |-> 900000, who |-> 900000, census |-> 900000, wikipedia |-> 800000, wikidata |-> 700000, googlecse |-> 600000],
     ip |-> [ipgeo |-> 1000000, whois |-> 800000, dns |-> 800000, cve |-> 500000],
     username |-> [username |-> 1000000, github |-> 900000, reddit |-> 800000, hackernews |-> 700000, devto |-> 600000, googlecse |-> 500000],
     doi |-> [crossref |-> 1000000, arxiv |-> 900000, pubmed |-> 900000, googlecse |-> 500000]]

DaySeconds == 86400      \* dayMs, with time counted in seconds
Now == 8640000           \* Date.now() during the ranking, in seconds

\* table[key] || fallback for a table whose entries are non-zero
LookupOr(table, key, fallback) ==
    IF key \in DOMAIN table /\ table[key] # 0 THEN table[key] ELSE fallback

\* result.score || 0.5
ScoreOrHalf(r) == IF r.score = NoScore \/ r.score = 0 THEN Unit \div 2 ELSE r.score

Min(a, b) == IF a < b THEN a ELSE b

recencyBoost(result) ==
    IF result.timestamp = NoTimestamp THEN 0
    ELSE LET age == Now - result.timestamp
         IN  IF age < DaySeconds THEN Unit \div 10
             ELSE IF age < 7 * DaySeconds THEN Unit \div 20
             ELSE IF age < 30 * DaySeconds THEN Unit \div 50
             ELSE 0

calculateRelevanceScore(result, intent) ==
    LET baseScore == ScoreOrHalf(result)
        trustScore == LookupOr(sourceTrustScores, result.source, Unit \div 2)
        intentRelevanceMap ==
            IF intent.type \in DOMAIN intentSourceRelevance
            THEN intentSourceRelevance[intent.type] ELSE <<>>
        intentRelevance ==
            IF result.source \in DOMAIN intentRelevanceMap
            THEN intentRelevanceMap[result.source]
            ELSE IF result.source \in DOMAIN defaultRelevance
                 THEN defaultRelevance[result.source]
                 ELSE Unit \div 2
        combinedScore ==
            (baseScore * 4 + trustScore * 2 + intentRelevance * 3 + intent.confidence * 1) \div 10
    IN  Min(Unit, combinedScore + recencyBoost(result))

\* the first pass without its sort
rankResultsUnsorted(results, intent) ==
    [i \in 1..Len(results) |->
        [results[i] EXCEPT !.score = calculateRelevanceScore(results[i], intent)]]

rankResults(results, intent) ==
    WithValue(results, LAMBDA rs :
        LET scored == [i \in 1..Len(rs) |->
                          [rs[i] EXCEPT !.score = calculateRelevanceScore(rs[i], intent)]]
        IN  ArraySort("score", scored))

RECURSIVE DiversifyLoop(_, _, _, _)
\* the for loop of diversifyResults; counts maps a source to its count so far
DiversifyLoop(rest, maxPerSource, counts, diversified) ==
    IF rest = <<>> THEN diversified
    ELSE LET result == Head(rest)
             count == IF result.source \in DOMAIN counts THEN counts[result.source] ELSE 0
         IN  IF count < maxPerSource
             THEN WithValue([s \in DOMAIN counts \cup {result.source} |->
                                IF s = result.source THEN count + 1 ELSE counts[s]],
                            LAMBDA counted :
                     WithValue(Append(diversified, result), LAMBDA kept :
                         WithValue(Tail(rest), LAMBDA others :
                             DiversifyLoop(others, maxPerSource, counted, kept))))
             ELSE WithValue(Tail(rest), LAMBDA others :
                     DiversifyLoop(others, maxPerSource, counts, diversified))

\* the loop with count <= maxPerSource for count < maxPerSource
diversifyResultsOneMore(results, maxPerSource) ==
    WithValue(results, LAMBDA rs : DiversifyLoop(rs, maxPerSource + 1, <<>>, <<>>))

diversifyResults(results, maxPerSource) ==
    WithValue(results, LAMBDA rs : DiversifyLoop(rs, maxPerSource, <<>>, <<>>))

(***************************************************************************)
(* lib/nlp/embeddings.ts                                                   *)
(***************************************************************************)
\* a.includes(b) on the tokens of the vocabulary
Includes(a, b) ==
    \/ a = b
    \/ b = ""
    \/ <<a, b>> \in {<<"rustlang", "rust">>}

\* `${result.title} ${result.description}`
TextToMatch(result) == result.title \o result.description

\* twice the number of matches one query term adds in localSimilarity
TermMatches2(term, textTerms) ==
    (IF term \in Range(textTerms) THEN 2 ELSE 0)
    + (IF \E i \in 1..Len(textTerms) : Includes(textTerms[i], term) \/ Includes(term, textTerms[i])
       THEN 1 ELSE 0)

RECURSIVE SumMatches2(_, _)
SumMatches2(queryTerms, textTerms) ==
    IF queryTerms = <<>> THEN 0
    ELSE TermMatches2(Head(queryTerms), textTerms) + SumMatches2(Tail(queryTerms), textTerms)

\* matches / Math.max(queryTerms.length, 1)
localSimilarity(query, text) ==
    LET queryTerms == [i \in 1..Len(query) |-> ToLower(query[i])]
        textTerms == [i \in 1..Len(text) |-> ToLower(text[i])]
        n == IF Len(queryTerms) > 1 THEN Len(queryTerms) ELSE 1
    IN  (SumMatches2(queryTerms, textTerms) * (Unit \div 2)) \div n

rerankWithLocalSimilarity(query, results) ==
    WithValue(results, LAMBDA rs :
        IF Len(rs) = 0 THEN rs
        ELSE LET scored == [i \in 1..Len(rs) |->
                     [rs[i] EXCEPT !.score =
                         (ScoreOrHalf(rs[i]) * 5
                            + localSimilarity(query, TextToMatch(rs[i])) * 5) \div 10]]
             IN  ArraySort("score", scored))

\* Math.sqrt on the squared norms of the model's vectors
Sqrt(n) == CHOOSE k \in 0..n : k * k <= n /\ (k + 1) * (k + 1) > n

RECURSIVE DotProduct(_, _)
DotProduct(a, b) ==
    IF a = <<>> THEN 0 ELSE Head(a) * Head(b) + DotProduct(Tail(a), Tail(b))

cosineSimilarity(a, b) ==
    IF Len(a) # Len(b) THEN 0
    ELSE LET magnitude == Sqrt(DotProduct(a, a)) * Sqrt(DotProduct(b, b))
         IN  IF magnitude = 0 THEN 0 ELSE (DotProduct(a, b) * Unit) \div magnitude

\* the value getEmbeddings returns for a response: null (<<>> here stands for
\* null and for an empty list alike, both are returned unchanged) or the vectors
NoEmbeddings == <<>>

\* rerankWithEmbeddings after getEmbeddings returned `embeddings`
rerankWithEmbeddings(results, embeddings) ==
    WithValue(results, LAMBDA rs :
        IF Len(rs) = 0 \/ Len(embeddings) < 2 THEN rs
        ELSE LET queryEmbedding == embeddings[1]
                 reranked == [i \in 1..Len(rs) |->
                     [rs[i] EXCEPT !.score =
                         (ScoreOrHalf(rs[i]) * 4
                            + cosineSimilarity(queryEmbedding, embeddings[i + 1]) * 6) \div 10]]
             IN  ArraySort("score", reranked))

(***************************************************************************)
(* Strings of the classifier.  A query is the sequence of its characters;  *)
(* a regular expression is a term over the constructors below, and         *)
(* Ends(re, s, i) is the set of positions at which a match of re that      *)
(* starts at position i of s can end (positions count the characters       *)
(* before them, 0..Len(s)).  The alphabet is ASCII; \s is the space.       *)
(***************************************************************************)
Digits == {"0", "1", "2", "3", "4", "5", "6", "7", "8", "9"}

LowerSeq ==
    <<"a", "b", "c", "d", "e", "f", "g", "h", "i", "j", "k", "l", "m",
      "n", "o", "p", "q", "r", "s", "t", "u", "v", "w", "x", "y", "z">>

UpperSeq ==
    <<"A", "B", "C", "D", "E", "F", "G", "H", "I", "J", "K", "L", "M",
      "N", "O", "P", "Q", "R", "S", "T", "U", "V", "W", "X", "Y", "Z">>

LowerLetters == Range(LowerSeq)

UpperLetters == Range(UpperSeq)

Spaces == {" "}

\* \w
WordChars == LowerLetters \cup UpperLetters \cup Digits \cup {"_"}

LowerChar(c) ==
    IF c \in UpperLetters THEN LowerSeq[CHOOSE i \in 1..26 : UpperSeq[i] = c] ELSE c

UpperChar(c) ==
    IF c \in LowerLetters THEN UpperSeq[CHOOSE i \in 1..26 : LowerSeq[i] = c] ELSE c

\* String.prototype.toLowerCase
toLowerCase(s) == [i \in 1..Len(s) |-> LowerChar(s[i])]

\* String.prototype.toUpperCase
toUpperCase(s) == [i \in 1..Len(s) |-> UpperChar(s[i])]

\* the upper bound of {n,}, + and *
Unbounded == -1

Chr(set) == [t |-> "chr", set |-> set]                     \* [...]

NotChr(set) == [t |-> "not", set |-> set]                  \* [^...]

Str(chars) == [t |-> "str", chars |-> chars]               \* literal characters

Cat(parts) == [t |-> "cat", parts |-> parts]               \* one after the other

Alt(parts) == [t |-> "alt", parts |-> parts]               \* a|b|c

Rep(sub, min, max) == [t |-> "rep", sub |-> sub, min |-> min, max |-> max]   \* {min,max}

Bol == [t |-> "bol"]                                       \* ^

Eol == [t |-> "eol"]                                       \* $

Wb == [t |-> "wb"]                                         \* \b

\* position i of s has a word character before it / after it
WordBefore(s, i) == i > 0 /\ s[i] \in WordChars

WordAfter(s, i) == i < Len(s) /\ s[i + 1] \in WordChars

RECURSIVE Ends(_, _, _)
RECURSIVE CatEnds(_, _, _, _)
RECURSIVE RepEnds(_, _, _, _)
Ends(re, s, i) ==
    CASE re.t = "chr" -> IF i < Len(s) /\ s[i + 1] \in re.set THEN {i + 1} ELSE {}
      [] re.t = "not" -> IF i < Len(s) /\ s[i + 1] \notin re.set THEN {i + 1} ELSE {}
      [] re.t = "str" ->
            IF i + Len(re.chars) <= Len(s) /\ SubSeq(s, i + 1, i + Len(re.chars)) = re.chars
            THEN {i + Len(re.chars)} ELSE {}
      [] re.t = "cat" -> CatEnds(re.parts, 1, s, {i})
      [] re.t = "alt" -> UNION {Ends(re.parts[k], s, i) : k \in 1..Len(re.parts)}
      [] re.t = "rep" -> RepEnds(re, s, {i}, 0)
      [] re.t = "bol" -> IF i = 0 THEN {i} ELSE {}
      [] re.t = "eol" -> IF i = Len(s) THEN {i} ELSE {}
      [] re.t = "wb" -> IF WordBefore(s, i) # WordAfter(s, i) THEN {i} ELSE {}

\* the ends of parts[k..] started at any position of `from`
CatEnds(parts, k, s, from) ==
    IF k > Len(parts) \/ from = {} THEN from
    ELSE CatEnds(parts, k + 1, s, UNION {Ends(parts[k], s, i) : i \in from})

\* `from` is where `count` repetitions of re.sub can end; the ends of min..max
\* repetitions
RepEnds(re, s, from, count) ==
    IF from = {} THEN {}
    ELSE LET here == IF count >= re.min THEN from ELSE {}
         IN  IF count = re.max THEN here
             ELSE here \cup RepEnds(re, s, UNION {Ends(re.sub, s, i) : i \in from}, count + 1)

\* the starts at which re matches in s
Starts(re, s) == {i \in 0..Len(s) : Ends(re, s, i) # {}}

\* RegExp.prototype.test, without the i flag
Test(re, s) == WithValue(s, LAMBDA str : Starts(re, str) # {})

\* RegExp.prototype.test with the i flag: re is written in lower case
TestI(re, s) == Test(re, toLowerCase(s))

\* the span <<start, end>> of the match String.prototype.match returns: the
\* leftmost start and, the quantifiers being greedy, its furthest end
MatchSpan(re, s) ==
    LET starts == Starts(re, s)
        first == CHOOSE i \in starts : \A j \in starts : i <= j
        ends == Ends(re, s, first)
    IN  <<first, CHOOSE e \in ends : \A f \in ends : f <= e>>

(***************************************************************************)
(* The regular expressions of intentPatterns and of classifyIntentLocal,   *)
(* each under the expression it is written from.  An expression with the   *)
(* i flag is written in lower case and tested on the lower-cased query.    *)
(***************************************************************************)

\* /^[a-zA-Z0-9](?:[a-zA-Z0-9-]{0,61}[a-zA-Z0-9])?(?:\.[a-zA-Z]{2,})+$/
DomainPattern1 ==
    Cat(<<
        Bol, Chr(LowerLetters \cup UpperLetters \cup Digits),
        Rep(Cat(<<
                Rep(Chr(LowerLetters \cup UpperLetters \cup Digits \cup {"-"}), 0, 61),
                Chr(LowerLetters \cup UpperLetters \cup Digits)>>), 0, 1),
        Rep(Cat(<<Str(<<".">>), Rep(Chr(LowerLetters \cup UpperLetters), 2, Unbounded)>>), 1, Unbounded),
        Eol>>)

\* /\.(com|net|org|io|dev|app|co|ai|xyz|info|biz|gov|edu|uk|de|fr|jp)$/i
DomainPattern2 ==
    Cat(<<
        Str(<<".">>),
        Alt(<<
            Str(<<"c", "o", "m">>), Str(<<"n", "e", "t">>), Str(<<"o", "r", "g">>),
            Str(<<"i", "o">>), Str(<<"d", "e", "v">>), Str(<<"a", "p", "p">>),
            Str(<<"c", "o">>), Str(<<"a", "i">>), Str(<<"x", "y", "z">>),
            Str(<<"i", "n", "f", "o">>), Str(<<"b", "i", "z">>), Str(<<"g", "o", "v">>),
            Str(<<"e", "d", "u">>), Str(<<"u", "k">>), Str(<<"d", "e">>), Str(<<"f", "r">>),
            Str(<<"j", "p">>)>>),
        Eol>>)

\* /^(?:(?:25[0-5]|2[0-4][0-9]|[01]?[0-9][0-9]?)\.){3}(?:25[0-5]|2[0-4][0-9]|[01]?[0-9][0-9]?)$/
IpPattern1 ==
    Cat(<<
        Bol,
        Rep(Cat(<<
                Alt(<<
                    Cat(<<Str(<<"2", "5">>), Chr({"0", "1", "2", "3", "4", "5"})>>),
                    Cat(<<Str(<<"2">>), Chr({"0", "1", "2", "3", "4"}), Chr(Digits)>>),
                    Cat(<<Rep(Chr({"0", "1"}), 0, 1), Chr(Digits), Rep(Chr(Digits), 0, 1)>>)>>),
                Str(<<".">>)>>), 3, 3),
        Alt(<<
            Cat(<<Str(<<"2", "5">>), Chr({"0", "1", "2", "3", "4", "5"})>>),
            Cat(<<Str(<<"2">>), Chr({"0", "1", "2", "3", "4"}), Chr(Digits)>>),
            Cat(<<Rep(Chr({"0", "1"}), 0, 1), Chr(Digits), Rep(Chr(Digits), 0, 1)>>)>>),
        Eol>>)

\* /^(?:[0-9a-fA-F]{1,4}:){7}[0-9a-fA-F]{1,4}$/
IpPattern2 ==
    Cat(<<
        Bol,
        Rep(Cat(<<
                Rep(Chr(Digits \cup {"a", "b", "c", "d", "e", "f", "A", "B", "C", "D", "E", "F"}), 1, 4),
                Str(<<":">>)>>), 7, 7),
        Rep(Chr(Digits \cup {"a", "b", "c", "d", "e", "f", "A", "B", "C", "D", "E", "F"}), 1, 4),
        Eol>>)

\* /^@?[a-zA-Z][a-zA-Z0-9_]{2,30}$/
UsernamePattern1 ==
    Cat(<<
        Bol, Rep(Str(<<"@">>), 0, 1), Chr(LowerLetters \cup UpperLetters),
        Rep(Chr(LowerLetters \cup UpperLetters \cup Digits \cup {"_"}), 2, 30), Eol>>)

\* /\b(username|user|profile|account|who\s+is\s+@)\b/i
UsernamePattern2 ==
    Cat(<<
        Wb,
        Alt(<<
            Str(<<"u", "s", "e", "r", "n", "a", "m", "e">>), Str(<<"u", "s", "e", "r">>),
            Str(<<"p", "r", "o", "f", "i", "l", "e">>),
            Str(<<"a", "c", "c", "o", "u", "n", "t">>),
            Cat(<<
                Str(<<"w", "h", "o">>), Rep(Chr(Spaces), 1, Unbounded), Str(<<"i", "s">>),
                Rep(Chr(Spaces), 1, Unbounded), Str(<<"@">>)>>)>>),
        Wb>>)

\* /^@[a-zA-Z0-9_]+$/
UsernamePattern3 ==
    Cat(<<
        Bol, Str(<<"@">>),
        Rep(Chr(LowerLetters \cup UpperLetters \cup Digits \cup {"_"}), 1, Unbounded), Eol>>)

\* /^10\.\d{4,}\/[^\s]+$/
DoiPattern1 ==
    Cat(<<
        Bol, Str(<<"1", "0", ".">>), Rep(Chr(Digits), 4, Unbounded), Str(<<"/">>),
        Rep(NotChr(Spaces), 1, Unbounded), Eol>>)

\* /doi\.org\/10\./i
DoiPattern2 ==
    Str(<<"d", "o", "i", ".", "o", "r", "g", "/", "1", "0", ".">>)

\* /\b(doi|citation|cite|paper\s+id)\b/i
DoiPattern3 ==
    Cat(<<
        Wb,
        Alt(<<
            Str(<<"d", "o", "i">>), Str(<<"c", "i", "t", "a", "t", "i", "o", "n">>),
            Str(<<"c", "i", "t", "e">>),
            Cat(<<
                Str(<<"p", "a", "p", "e", "r">>), Rep(Chr(Spaces), 1, Unbounded),
                Str(<<"i", "d">>)>>)>>),
        Wb>>)

\* /\b(cve|vulnerability|exploit|malware|attack|breach|hack)\b/i
SecurityPattern1 ==
    Cat(<<
        Wb,
        Alt(<<
            Str(<<"c", "v", "e">>),
            Str(<<"v", "u", "l", "n", "e", "r", "a", "b", "i", "l", "i", "t", "y">>),
            Str(<<"e", "x", "p", "l", "o", "i", "t">>),
            Str(<<"m", "a", "l", "w", "a", "r", "e">>),
            Str(<<"a", "t", "t", "a", "c", "k">>), Str(<<"b", "r", "e", "a", "c", "h">>),
            Str(<<"h", "a", "c", "k">>)>>),
        Wb>>)

\* /\b(security|pentest|penetration|bug\s*bounty|threat)\b/i
SecurityPattern2 ==
    Cat(<<
        Wb,
        Alt(<<
            Str(<<"s", "e", "c", "u", "r", "i", "t", "y">>),
            Str(<<"p", "e", "n", "t", "e", "s", "t">>),
            Str(<<"p", "e", "n", "e", "t", "r", "a", "t", "i", "o", "n">>),
            Cat(<<
                Str(<<"b", "u", "g">>), Rep(Chr(Spaces), 0, Unbounded),
                Str(<<"b", "o", "u", "n", "t", "y">>)>>),
            Str(<<"t", "h", "r", "e", "a", "t">>)>>),
        Wb>>)

\* /CVE-\d{4}-\d+/i
SecurityPattern3 ==
    Cat(<<
        Str(<<"c", "v", "e", "-">>), Rep(Chr(Digits), 4, 4), Str(<<"-">>),
        Rep(Chr(Digits), 1, Unbounded)>>)

\* /\b(ransomware|phishing|ddos|botnet|rootkit)\b/i
SecurityPattern4 ==
    Cat(<<
        Wb,
        Alt(<<
            Str(<<"r", "a", "n", "s", "o", "m", "w", "a", "r", "e">>),
            Str(<<"p", "h", "i", "s", "h", "i", "n", "g">>), Str(<<"d", "d", "o", "s">>),
            Str(<<"b", "o", "t", "n", "e", "t">>),
            Str(<<"r", "o", "o", "t", "k", "i", "t">>)>>),
        Wb>>)

\* /\b(company|corporation|corp|inc|llc|ltd|gmbh|plc|s\.?a\.?)\b/i
CompanyPattern1 ==
    Cat(<<
        Wb,
        Alt(<<
            Str(<<"c", "o", "m", "p", "a", "n", "y">>),
            Str(<<"c", "o", "r", "p", "o", "r", "a", "t", "i", "o", "n">>),
            Str(<<"c", "o", "r", "p">>), Str(<<"i", "n", "c">>), Str(<<"l", "l", "c">>),
            Str(<<"l", "t", "d">>), Str(<<"g", "m", "b", "h">>), Str(<<"p", "l", "c">>),
            Cat(<<
                Str(<<"s">>), Rep(Str(<<".">>), 0, 1), Str(<<"a">>), Rep(Str(<<".">>), 0, 1)>>)>>),
        Wb>>)

\* /\b(stock|ticker|sec|filing|investor|quarterly|earnings)\b/i
CompanyPattern2 ==
    Cat(<<
        Wb,
        Alt(<<
            Str(<<"s", "t", "o", "c", "k">>), Str(<<"t", "i", "c", "k", "e", "r">>),
            Str(<<"s", "e", "c">>), Str(<<"f", "i", "l", "i", "n", "g">>),
            Str(<<"i", "n", "v", "e", "s", "t", "o", "r">>),
            Str(<<"q", "u", "a", "r", "t", "e", "r", "l", "y">>),
            Str(<<"e", "a", "r", "n", "i", "n", "g", "s">>)>>),
        Wb>>)

\* /\b(founded|ceo|revenue|valuation|acquisition|ipo|market\s*cap)\b/i
CompanyPattern3 ==
    Cat(<<
        Wb,
        Alt(<<
            Str(<<"f", "o", "u", "n", "d", "e", "d">>), Str(<<"c", "e", "o">>),
            Str(<<"r", "e", "v", "e", "n", "u", "e">>),
            Str(<<"v", "a", "l", "u", "a", "t", "i", "o", "n">>),
            Str(<<"a", "c", "q", "u", "i", "s", "i", "t", "i", "o", "n">>),
            Str(<<"i", "p", "o">>),
            Cat(<<
                Str(<<"m", "a", "r", "k", "e", "t">>), Rep(Chr(Spaces), 0, Unbounded),
                Str(<<"c", "a", "p">>)>>)>>),
        Wb>>)

\* /^[A-Z][a-z]+\s+[A-Z][a-z]+$/
PersonPattern1 ==
    Cat(<<
        Bol, Chr(UpperLetters), Rep(Chr(LowerLetters), 1, Unbounded),
        Rep(Chr(Spaces), 1, Unbounded), Chr(UpperLetters),
        Rep(Chr(LowerLetters), 1, Unbounded), Eol>>)

\* /\b(who\s+is|biography|born|died|age\s+of)\b/i
PersonPattern2 ==
    Cat(<<
        Wb,
        Alt(<<
            Cat(<<
                Str(<<"w", "h", "o">>), Rep(Chr(Spaces), 1, Unbounded), Str(<<"i", "s">>)>>),
            Str(<<"b", "i", "o", "g", "r", "a", "p", "h", "y">>),
            Str(<<"b", "o", "r", "n">>), Str(<<"d", "i", "e", "d">>),
            Cat(<<
                Str(<<"a", "g", "e">>), Rep(Chr(Spaces), 1, Unbounded), Str(<<"o", "f">>)>>)>>),
        Wb>>)

\* /\b(founder|ceo|president|director|author|inventor)\b/i
PersonPattern3 ==
    Cat(<<
        Wb,
        Alt(<<
            Str(<<"f", "o", "u", "n", "d", "e", "r">>), Str(<<"c", "e", "o">>),
            Str(<<"p", "r", "e", "s", "i", "d", "e", "n", "t">>),
            Str(<<"d", "i", "r", "e", "c", "t", "o", "r">>),
            Str(<<"a", "u", "t", "h", "o", "r">>),
            Str(<<"i", "n", "v", "e", "n", "t", "o", "r">>)>>),
        Wb>>)

\* /\b(programming|code|coding|developer|software|api|sdk|cli)\b/i
TechPattern1 ==
    Cat(<<
        Wb,
        Alt(<<
            Str(<<"p", "r", "o", "g", "r", "a", "m", "m", "i", "n", "g">>),
            Str(<<"c", "o", "d", "e">>), Str(<<"c", "o", "d", "i", "n", "g">>),
            Str(<<"d", "e", "v", "e", "l", "o", "p", "e", "r">>),
            Str(<<"s", "o", "f", "t", "w", "a", "r", "e">>), Str(<<"a", "p", "i">>),
            Str(<<"s", "d", "k">>), Str(<<"c", "l", "i">>)>>),
        Wb>>)

\* /\b(javascript|typescript|python|rust|golang|java|c\+\+|ruby)\b/i
TechPattern2 ==
    Cat(<<
        Wb,
        Alt(<<
            Str(<<"j", "a", "v", "a", "s", "c", "r", "i", "p", "t">>),
            Str(<<"t", "y", "p", "e", "s", "c", "r", "i", "p", "t">>),
            Str(<<"p", "y", "t", "h", "o", "n">>), Str(<<"r", "u", "s", "t">>),
            Str(<<"g", "o", "l", "a", "n", "g">>), Str(<<"j", "a", "v", "a">>),
            Str(<<"c", "+", "+">>), Str(<<"r", "u", "b", "y">>)>>),
        Wb>>)

\* /\b(react|vue|angular|nextjs|svelte|tailwind|bootstrap)\b/i
TechPattern3 ==
    Cat(<<
        Wb,
        Alt(<<
            Str(<<"r", "e", "a", "c", "t">>), Str(<<"v", "u", "e">>),
            Str(<<"a", "n", "g", "u", "l", "a", "r">>),
            Str(<<"n", "e", "x", "t", "j", "s">>), Str(<<"s", "v", "e", "l", "t", "e">>),
            Str(<<"t", "a", "i", "l", "w", "i", "n", "d">>),
            Str(<<"b", "o", "o", "t", "s", "t", "r", "a", "p">>)>>),
        Wb>>)

\* /\b(npm|pip|cargo|package|library|framework|tutorial|docs)\b/i
TechPattern4 ==
    Cat(<<
        Wb,
        Alt(<<
            Str(<<"n", "p", "m">>), Str(<<"p", "i", "p">>),
            Str(<<"c", "a", "r", "g", "o">>), Str(<<"p", "a", "c", "k", "a", "g", "e">>),
            Str(<<"l", "i", "b", "r", "a", "r", "y">>),
            Str(<<"f", "r", "a", "m", "e", "w", "o", "r", "k">>),
            Str(<<"t", "u", "t", "o", "r", "i", "a", "l">>), Str(<<"d", "o", "c", "s">>)>>),
        Wb>>)

\* /\b(github|stackoverflow|documentation|how\s+to)\b/i
TechPattern5 ==
    Cat(<<
        Wb,
        Alt(<<
            Str(<<"g", "i", "t", "h", "u", "b">>),
            Str(<<"s", "t", "a", "c", "k", "o", "v", "e", "r", "f", "l", "o", "w">>),
            Str(<<"d", "o", "c", "u", "m", "e", "n", "t", "a", "t", "i", "o", "n">>),
            Cat(<<
                Str(<<"h", "o", "w">>), Rep(Chr(Spaces), 1, Unbounded), Str(<<"t", "o">>)>>)>>),
        Wb>>)

\* /\b(bug|error|exception|debug|fix|issue)\b/i
TechPattern6 ==
    Cat(<<
        Wb,
        Alt(<<
            Str(<<"b", "u", "g">>), Str(<<"e", "r", "r", "o", "r">>),
            Str(<<"e", "x", "c", "e", "p", "t", "i", "o", "n">>),
            Str(<<"d", "e", "b", "u", "g">>), Str(<<"f", "i", "x">>),
            Str(<<"i", "s", "s", "u", "e">>)>>),
        Wb>>)

\* /\b(research|paper|study|journal|academic|scientific|scholar)\b/i
ResearchPattern1 ==
    Cat(<<
        Wb,
        Alt(<<
            Str(<<"r", "e", "s", "e", "a", "r", "c", "h">>),
            Str(<<"p", "a", "p", "e", "r">>), Str(<<"s", "t", "u", "d", "y">>),
            Str(<<"j", "o", "u", "r", "n", "a", "l">>),
            Str(<<"a", "c", "a", "d", "e", "m", "i", "c">>),
            Str(<<"s", "c", "i", "e", "n", "t", "i", "f", "i", "c">>),
            Str(<<"s", "c", "h", "o", "l", "a", "r">>)>>),
        Wb>>)

\* /\b(arxiv|pubmed|doi|citation|thesis|dissertation)\b/i
ResearchPattern2 ==
    Cat(<<
        Wb,
        Alt(<<
            Str(<<"a", "r", "x", "i", "v">>), Str(<<"p", "u", "b", "m", "e", "d">>),
            Str(<<"d", "o", "i">>), Str(<<"c", "i", "t", "a", "t", "i", "o", "n">>),
            Str(<<"t", "h", "e", "s", "i", "s">>),
            Str(<<"d", "i", "s", "s", "e", "r", "t", "a", "t", "i", "o", "n">>)>>),
        Wb>>)

\* /\b(hypothesis|methodology|findings|results|experiment)\b/i
ResearchPattern3 ==
    Cat(<<
        Wb,
        Alt(<<
            Str(<<"h", "y", "p", "o", "t", "h", "e", "s", "i", "s">>),
            Str(<<"m", "e", "t", "h", "o", "d", "o", "l", "o", "g", "y">>),
            Str(<<"f", "i", "n", "d", "i", "n", "g", "s">>),
            Str(<<"r", "e", "s", "u", "l", "t", "s">>),
            Str(<<"e", "x", "p", "e", "r", "i", "m", "e", "n", "t">>)>>),
        Wb>>)

\* /\b(health|disease|medicine|vaccine|treatment|clinical)\b/i
ResearchPattern4 ==
    Cat(<<
        Wb,
        Alt(<<
            Str(<<"h", "e", "a", "l", "t", "h">>),
            Str(<<"d", "i", "s", "e", "a", "s", "e">>),
            Str(<<"m", "e", "d", "i", "c", "i", "n", "e">>),
            Str(<<"v", "a", "c", "c", "i", "n", "e">>),
            Str(<<"t", "r", "e", "a", "t", "m", "e", "n", "t">>),
            Str(<<"c", "l", "i", "n", "i", "c", "a", "l">>)>>),
        Wb>>)

\* /\b(gdp|economy|population|census|statistics|data)\b/i
ResearchPattern5 ==
    Cat(<<
        Wb,
        Alt(<<
            Str(<<"g", "d", "p">>), Str(<<"e", "c", "o", "n", "o", "m", "y">>),
            Str(<<"p", "o", "p", "u", "l", "a", "t", "i", "o", "n">>),
            Str(<<"c", "e", "n", "s", "u", "s">>),
            Str(<<"s", "t", "a", "t", "i", "s", "t", "i", "c", "s">>),
            Str(<<"d", "a", "t", "a">>)>>),
        Wb>>)

\* a regular expression with its i flag
Pattern(re, ci) == [re |-> re, ci |-> ci]

\* pattern.test(query)
PatternTest(pattern, query) ==
    IF pattern.ci THEN TestI(pattern.re, query) ELSE Test(pattern.re, query)

\* Object.entries(intentPatterns), in the order of the literal
intentPatterns ==
    <<
      [type |-> "domain",
       patterns |-> <<Pattern(DomainPattern1, FALSE), Pattern(DomainPattern2, TRUE)>>],
      [type |-> "ip",
       patterns |-> <<Pattern(IpPattern1, FALSE), Pattern(IpPattern2, FALSE)>>],
      [type |-> "username",
       patterns |-> <<Pattern(UsernamePattern1, FALSE), Pattern(UsernamePattern2, TRUE),
                      Pattern(UsernamePattern3, FALSE)>>],
      [type |-> "doi",
       patterns |-> <<Pattern(DoiPattern1, FALSE), Pattern(DoiPattern2, TRUE),
                      Pattern(DoiPattern3, TRUE)>>],
      [type |-> "security",
       patterns |-> <<Pattern(SecurityPattern1, TRUE), Pattern(SecurityPattern2, TRUE),
                      Pattern(SecurityPattern3, TRUE), Pattern(SecurityPattern4, TRUE)>>],
      [type |-> "company",
       patterns |-> <<Pattern(CompanyPattern1, TRUE), Pattern(CompanyPattern2, TRUE),
                      Pattern(CompanyPattern3, TRUE)>>],
      [type |-> "person",
       patterns |-> <<Pattern(PersonPattern1, FALSE), Pattern(PersonPattern2, TRUE),
                      Pattern(PersonPattern3, TRUE)>>],
      [type |-> "tech",
       patterns |-> <<Pattern(TechPattern1, TRUE), Pattern(TechPattern2, TRUE),
                      Pattern(TechPattern3, TRUE), Pattern(TechPattern4, TRUE),
                      Pattern(TechPattern5, TRUE), Pattern(TechPattern6, TRUE)>>],
      [type |-> "research",
       patterns |-> <<Pattern(ResearchPattern1, TRUE), Pattern(ResearchPattern2, TRUE),
                      Pattern(ResearchPattern3, TRUE), Pattern(ResearchPattern4, TRUE),
                      Pattern(ResearchPattern5, TRUE)>>] >>


\* /CVE-\d{4}-\d+/i
CveRule ==
    Cat(<<
        Str(<<"c", "v", "e", "-">>), Rep(Chr(Digits), 4, 4), Str(<<"-">>),
        Rep(Chr(Digits), 1, Unbounded)>>)

\* /10\.\d{4,}\/[^\s]+/
DoiRule ==
    Cat(<<
        Str(<<"1", "0", ".">>), Rep(Chr(Digits), 4, Unbounded), Str(<<"/">>),
        Rep(NotChr(Spaces), 1, Unbounded)>>)

\* /doi\.org\/(10\.[^\s]+)/i
DoiUrlRule ==
    Cat(<<
        Str(<<"d", "o", "i", ".", "o", "r", "g", "/">>),
        Cat(<<Str(<<"1", "0", ".">>), Rep(NotChr(Spaces), 1, Unbounded)>>)>>)

\* /^@[a-zA-Z0-9_]{2,30}$/
HandleRule ==
    Cat(<<
        Bol, Str(<<"@">>),
        Rep(Chr(LowerLetters \cup UpperLetters \cup Digits \cup {"_"}), 2, 30), Eol>>)

(***************************************************************************)
(* classifyIntentLocal and classifyIntentWithAI                            *)
(***************************************************************************)
\* lib/sources/types.ts
intentSourceMap ==
    [general  |-> <<"googlecse", "wikipedia", "duckduckgo", "hackernews", "reddit">>,
     person   |-> <<"wikipedia", "wikidata", "username", "github", "hackernews", "reddit">>,
     company  |-> <<"company", "sec", "wikipedia", "wikidata", "googlecse", "news">>,
     domain   |-> <<"whois", "dns", "cve", "archive", "googlecse">>,
     tech     |-> <<"github", "stackoverflow", "npm", "pypi", "devto", "hackernews">>,
     security |-> <<"cve", "whois", "dns", "ipgeo", "github">>,
     research |-> <<"arxiv", "pubmed", "crossref", "worldbank", "who", "census", "wikipedia">>,
     ip       |-> <<"ipgeo", "whois", "dns">>,
     username |-> <<"username", "github", "reddit", "hackernews">>,
     doi      |-> <<"crossref", "arxiv", "pubmed">>]

\* lib/utils isIPAddress: the IPv4 or the IPv6 literal grammar
isIPAddress(query) == Test(IpPattern1, query) \/ Test(IpPattern2, query)

\* lib/utils isDomain: labels followed by a top-level domain
isDomain(query) == Test(DomainPattern1, query)

\* the QueryIntent literal the classifier returns for a type
Intent(type, confidence, entities) ==
    [type |-> type, confidence |-> confidence, entities |-> entities,
     suggestedSources |-> intentSourceMap[type]]

\* the text of the match of rule in query (rule has the i flag)
MatchedText(rule, query) ==
    WithValue(MatchSpan(rule, toLowerCase(query)), LAMBDA span :
        SubSeq(query, span[1] + 1, span[2]))

\* if (isIPAddress(query)) return ...
IpIntent(query) == Intent("ip", 980000, <<query>>)

\* if (isDomain(query)) return ...
DomainIntent(query) == Intent("domain", 950000, <<query>>)

\* the security intent with the match as it is written in the query
CveIntentAsWritten(query) == Intent("security", 980000, <<MatchedText(CveRule, query)>>)

\* if (cveMatch) return ...
CveIntent(query) == Intent("security", 980000, <<toUpperCase(MatchedText(CveRule, query))>>)

\* "doi.org/": the group of DoiUrlRule starts after these characters
DoiUrlPrefix == 8

\* query.match(/10\.\d{4,}\/[^\s]+/) || query.match(/doi\.org\/(10\.[^\s]+)/i),
\* then doiMatch[1] || doiMatch[0]
DoiIntent(query) ==
    Intent("doi", 980000,
           <<IF Test(DoiRule, query)
             THEN WithValue(MatchSpan(DoiRule, query), LAMBDA span :
                      SubSeq(query, span[1] + 1, span[2]))
             ELSE WithValue(MatchSpan(DoiUrlRule, toLowerCase(query)), LAMBDA span :
                      SubSeq(query, span[1] + DoiUrlPrefix + 1, span[2]))>>)

\* query.startsWith('@') && /^@[a-zA-Z0-9_]{2,30}$/.test(query)
IsHandle(query) == query # <<>> /\ Head(query) = "@" /\ Test(HandleRule, query)

\* entities: [query.replace('@', '')]
HandleIntent(query) == Intent("username", 950000, <<Tail(query)>>)

\* the number of patterns of an entry of intentPatterns that match the query
Matches(entry, query) ==
    Cardinality({k \in 1..Len(entry.patterns) : PatternTest(entry.patterns[k], query)})

Scored(score) == score.matches > 0

\* Object.entries(scores): the types with a match, each with its score
\* matches / count, in the order of intentPatterns
Scores(query) ==
    SelectSeq([k \in 1..Len(intentPatterns) |->
                  [type |-> intentPatterns[k].type,
                   matches |-> Matches(intentPatterns[k], query),
                   count |-> Len(intentPatterns[k].patterns)]],
              Scored)

\* the score a type must exceed
Threshold == 200000

\* the 0.3 added to the score, and the cap of the sum
ConfidenceBonus == 300000

ConfidenceCap == 900000

\* the branch taken when sortedIntents[0][1] > 0.3 is the test
ScoredIntentAboveThreeTenths(query) ==
    WithValue(ArraySort("intent", Scores(query)), LAMBDA sortedIntents :
        IF /\ Len(sortedIntents) > 0
           /\ sortedIntents[1].matches * Unit > 300000 * sortedIntents[1].count
        THEN Intent(sortedIntents[1].type,
                    Min((sortedIntents[1].matches * Unit) \div sortedIntents[1].count
                            + ConfidenceBonus, ConfidenceCap),
                    <<>>)
        ELSE Intent("general", 500000, <<>>))

\* the scoring of the patterns: the best type when its score is above the
\* threshold, else general.  A score is kept as matches / count; the
\* confidence is rounded down to 1/Unit.
ScoredIntent(query) ==
    WithValue(ArraySort("intent", Scores(query)), LAMBDA sortedIntents :
        IF /\ Len(sortedIntents) > 0
           /\ sortedIntents[1].matches * Unit > Threshold * sortedIntents[1].count
        THEN Intent(sortedIntents[1].type,
                    Min((sortedIntents[1].matches * Unit) \div sortedIntents[1].count
                            + ConfidenceBonus, ConfidenceCap),
                    <<>>)
        ELSE Intent("general", 500000, <<>>))

\* the classifier with the domain test first and the address typed as a domain
classifyIntentLocalDomainFirst(query) ==
    IF isDomain(query) THEN DomainIntent(query)
    ELSE IF isIPAddress(query) THEN Intent("domain", 950000, <<query>>)
    ELSE IF TestI(CveRule, query) THEN CveIntent(query)
    ELSE IF Test(DoiRule, query) \/ TestI(DoiUrlRule, query) THEN DoiIntent(query)
    ELSE IF IsHandle(query) THEN HandleIntent(query)
    ELSE ScoredIntent(query)

\* the classifier with the CVE test before the domain test
classifyIntentLocalCveFirst(query) ==
    IF isIPAddress(query) THEN IpIntent(query)
    ELSE IF TestI(CveRule, query) THEN CveIntent(query)
    ELSE IF isDomain(query) THEN DomainIntent(query)
    ELSE IF Test(DoiRule, query) \/ TestI(DoiUrlRule, query) THEN DoiIntent(query)
    ELSE IF IsHandle(query) THEN HandleIntent(query)
    ELSE ScoredIntent(query)

classifyIntentLocal(query) ==
    IF isIPAddress(query) THEN IpIntent(query)
    ELSE IF isDomain(query) THEN DomainIntent(query)
    ELSE IF TestI(CveRule, query) THEN CveIntent(query)
    ELSE IF Test(DoiRule, query) \/ TestI(DoiUrlRule, query) THEN DoiIntent(query)
    ELSE IF IsHandle(query) THEN HandleIntent(query)
    ELSE ScoredIntent(query)

(***************************************************************************)
(* The classifier on its own: classifyIntentLocal(query), then             *)
(* classifyIntentWithAI(query) and what the chat-completions call answers  *)
(***************************************************************************)
\* "203.0.113.5"
QueryIPv4 == <<"2", "0", "3", ".", "0", ".", "1", "1", "3", ".", "5">>

\* "256.1.1.1"
QueryNotIPv4 == <<"2", "5", "6", ".", "1", ".", "1", ".", "1">>

\* "1:2:3:4:5:6:7:8"
QueryIPv6 == <<"1", ":", "2", ":", "3", ":", "4", ":", "5", ":", "6", ":", "7", ":", "8">>

\* "example.com"
QueryDomain == <<"e", "x", "a", "m", "p", "l", "e", ".", "c", "o", "m">>

\* "cve-2024-1.com"
QueryCveDomain == <<"c", "v", "e", "-", "2", "0", "2", "4", "-", "1", ".", "c", "o", "m">>

\* "CVE-2024-12345"
QueryCve == <<"C", "V", "E", "-", "2", "0", "2", "4", "-", "1", "2", "3", "4", "5">>

\* "details of cve-2024-1"
QueryCveLower == <<"d", "e", "t", "a", "i", "l", "s", " ", "o", "f", " ", "c", "v", "e", "-", "2", "0", "2", "4", "-", "1">>

\* "CVE-2024-1 10.1234/x"
QueryCveDoi == <<"C", "V", "E", "-", "2", "0", "2", "4", "-", "1", " ", "1", "0", ".", "1", "2", "3", "4", "/", "x">>

\* "10.1234/abc"
QueryDoi == <<"1", "0", ".", "1", "2", "3", "4", "/", "a", "b", "c">>

\* "see doi.org/10.12/x"
QueryDoiUrl == <<"s", "e", "e", " ", "d", "o", "i", ".", "o", "r", "g", "/", "1", "0", ".", "1", "2", "/", "x">>

\* "@ab"
QueryHandle == <<"@", "a", "b">>

\* "@a"
QueryShortHandle == <<"@", "a">>

\* "rust"
QueryRust == <<"r", "u", "s", "t">>

\* " rust "
QueryRustPadded == <<" ", "r", "u", "s", "t", " ">>

\* "malware attack"
QueryMalware == <<"m", "a", "l", "w", "a", "r", "e", " ", "a", "t", "t", "a", "c", "k">>

\* "research paper"
QueryResearch == <<"r", "e", "s", "e", "a", "r", "c", "h", " ", "p", "a", "p", "e", "r">>

\* "company stock ceo"
QueryCompany == <<"c", "o", "m", "p", "a", "n", "y", " ", "s", "t", "o", "c", "k", " ", "c", "e", "o">>

\* "Ada Lovelace"
QueryPerson == <<"A", "d", "a", " ", "L", "o", "v", "e", "l", "a", "c", "e">>

\* "hello world"
QueryHello == <<"h", "e", "l", "l", "o", " ", "w", "o", "r", "l", "d">>

\* "python tutorial"
QueryPython == <<"p", "y", "t", "h", "o", "n", " ", "t", "u", "t", "o", "r", "i", "a", "l">>

\* the queries of the model
ClassifyQueries ==
    { QueryIPv4, QueryNotIPv4, QueryIPv6, QueryDomain, QueryCveDomain,
      QueryCve, QueryCveLower, QueryCveDoi, QueryDoi, QueryDoiUrl,
      QueryHandle, QueryShortHandle, QueryRust, QueryRustPadded, QueryMalware,
      QueryResearch, QueryCompany, QueryPerson, QueryHello, QueryPython }

\* what the chat-completions call can answer: fetch rejects (network error,
\* abort), a status outside 2xx, a body response.json() rejects, a body without
\* choices[0].message.content, or a content string
JsonTypes == { "", "tech", "nosuchtype" }

JsonContents ==
    { [parse |-> "throws"], [parse |-> "null"] }
        \cup [parse : {"object"}, type : JsonTypes, confidence : {0, 900000, 1500000},
              entities : {<<>>, <<QueryRust>>}]

RemoteReplies ==
    { [kind |-> "rejected"], [kind |-> "not_ok"], [kind |-> "bad_body"], [kind |-> "no_content"] }
        \cup [kind : {"content"}, json : JsonContents]

NoReply == [kind |-> "none"]

NoReturn == [state |-> "none"]

Returned(value) == [state |-> "returned", value |-> value]

\* the intent built from the parsed content: parsed.type || 'general',
\* parsed.confidence || 0.7, parsed.entities || [],
\* intentSourceMap[intentType] || intentSourceMap.general
ParsedIntent(parsed) ==
    LET intentType == IF parsed.type = "" THEN "general" ELSE parsed.type
    IN  [type |-> intentType,
         confidence |-> IF parsed.confidence = 0 THEN 700000 ELSE parsed.confidence,
         entities |-> parsed.entities,
         suggestedSources |-> IF intentType \in DOMAIN intentSourceMap
                              THEN intentSourceMap[intentType]
                              ELSE intentSourceMap.general]

\* classifyIntentWithAI without its try/catch: what throws reaches the caller
AfterReplyUncaught(query, reply) ==
    IF reply.kind \in {"not_ok", "no_content"} THEN Returned(classifyIntentLocal(query))
    ELSE IF reply.kind \in {"rejected", "bad_body"} THEN [state |-> "raised"]
    ELSE IF reply.json.parse \in {"throws", "null"} THEN [state |-> "raised"]
    ELSE Returned(ParsedIntent(reply.json))

\* classifyIntentWithAI from the point its fetch settles: what it returns.
\* A rejected fetch, a rejected response.json(), a JSON.parse that throws and
\* the read of a property of null all end in the catch block.
AfterReply(query, reply) ==
    IF reply.kind \in {"not_ok", "no_content"} THEN Returned(classifyIntentLocal(query))
    ELSE IF reply.kind \in {"rejected", "bad_body"} THEN Returned(classifyIntentLocal(query))
    ELSE IF reply.json.parse \in {"throws", "null"} THEN Returned(classifyIntentLocal(query))
    ELSE Returned(ParsedIntent(reply.json))

IntentInit ==
    /\ ciQuery \in ClassifyQueries
    /\ ciKey \in BOOLEAN
    /\ ciLocal = NoIntent
    /\ ciReply = NoReply
    /\ ciResult = NoReturn
    /\ ciPc = "start"
    /\ MergeIdle
    /\ RankIdle
    /\ ApiIdle
    /\ MoreIdle

\* intent = classifyIntentLocal(query)
ClassifyLocal ==
    /\ ciPc = "start"
    /\ ciLocal' = classifyIntentLocal(ciQuery)
    /\ ciPc' = "local"
    /\ UNCHANGED <<ciQuery, ciKey, ciReply, ciResult, mergeVars, rankVars, apiVars, moreVars>>

\* classifyIntentWithAI(query) up to its await of fetch; without an API key it
\* returns the local classification at once
ClassifyWithAI ==
    /\ ciPc = "local"
    /\ IF ciKey
       THEN /\ ciPc' = "awaiting"
            /\ UNCHANGED ciResult
       ELSE /\ ciPc' = "returned"
            /\ ciResult' = Returned(classifyIntentLocal(ciQuery))
    /\ UNCHANGED <<ciQuery, ciKey, ciLocal, ciReply, mergeVars, rankVars, apiVars, moreVars>>

\* the fetch settles and classifyIntentWithAI runs to its return
RemoteSettles ==
    /\ ciPc = "awaiting"
    /\ \E reply \in RemoteReplies :
          /\ ciReply' = reply
          /\ ciResult' = AfterReply(ciQuery, reply)
    /\ ciPc' = "returned"
    /\ UNCHANGED <<ciQuery, ciKey, ciLocal, mergeVars, rankVars, apiVars, moreVars>>

IntentNext == ClassifyLocal \/ ClassifyWithAI \/ RemoteSettles

SpecIntent == IntentInit /\ [][IntentNext]_vars

\* classifyIntentLocal has returned
Classified == ciPc \in {"local", "awaiting", "returned"}

\* the first of the five rules the query matches, in the order the text gives
\* them; "none" when it matches none
FirstRule(query) ==
    IF isIPAddress(query) THEN "ip"
    ELSE IF isDomain(query) THEN "domain"
    ELSE IF TestI(CveRule, query) THEN "cve"
    ELSE IF Test(DoiRule, query) \/ TestI(DoiUrlRule, query) THEN "doi"
    ELSE IF IsHandle(query) THEN "handle"
    ELSE "none"

\* the type and the confidence fixed by each rule
RuleType == [ip |-> "ip", domain |-> "domain", cve |-> "security", doi |-> "doi",
             handle |-> "username"]

RuleConfidence == [ip |-> 980000, domain |-> 950000, cve |-> 980000, doi |-> 980000,
                   handle |-> 950000]

IsCveIntent(result, query) ==
    /\ result.type = "security"
    /\ result.confidence >= 950000
    /\ result.entities = <<toUpperCase(MatchedText(CveRule, query))>>

\* C18 as it is stated: a query in which CVE-\d{4}-\d+ matches, in any letter
\* case, is classified as security with confidence at least 0.95 and the
\* upper-cased match as its entity
C18_CveIdentifier ==
    (Classified /\ TestI(CveRule, ciQuery)) => IsCveIntent(ciLocal, ciQuery)

\* C18, amended: a query in which CVE-\d{4}-\d+ matches, in any letter case,
\* and which is not a domain name, is classified as security with confidence at
\* least 0.95 and the upper-cased match as its entity
C18_CveIdentifierUnlessDomain ==
    (Classified /\ TestI(CveRule, ciQuery) /\ ~isDomain(ciQuery)) =>
        IsCveIntent(ciLocal, ciQuery)

\* a lower-case identifier inside a longer query was classified, and the
\* entity is the identifier in upper case
C18_Witness ==
    /\ Classified
    /\ ciQuery = QueryCveLower
    /\ ciLocal.type = "security"
    /\ ciLocal.entities = <<SubSeq(QueryCve, 1, 10)>>

\* the entries of intentPatterns with the number of their patterns that match
PatternCounts(query) ==
    {[type |-> intentPatterns[k].type,
      matches |-> Matches(intentPatterns[k], query),
      count |-> Len(intentPatterns[k].patterns)] : k \in 1..Len(intentPatterns)}

\* the entries whose score matches / count no other entry exceeds
BestCounts(query) ==
    {b \in PatternCounts(query) :
        \A o \in PatternCounts(query) : o.matches * b.count <= b.matches * o.count}

RemoteFailed ==
    \/ ~ciKey
    \/ ciReply.kind \in {"rejected", "not_ok", "bad_body", "no_content"}
    \/ ciReply.kind = "content" /\ ciReply.json.parse = "throws"

\* C20: classifyIntentWithAI never ends by raising, and when its remote call has
\* failed it returns what classifyIntentLocal returned for the query
C20_RemoteFallsBackToLocal ==
    /\ ciResult.state # "raised"
    /\ (ciPc = "returned" /\ RemoteFailed) =>
          /\ ciResult.state = "returned"
          /\ ciResult.value = ciLocal

\* the fetch was rejected and the call returned the local classification of a
\* query that is not general
C20_Witness ==
    /\ ciPc = "returned"
    /\ ciKey
    /\ ciReply.kind = "rejected"
    /\ ciResult = Returned(ciLocal)
    /\ ciLocal.type = "security"

\* the ten values of the QueryIntent type enumeration
IntentTypeValues ==
    { "general", "person", "company", "domain", "tech", "security",
      "research", "ip", "username", "doi" }

WellFormedIntent(intent) ==
    /\ intent.type \in IntentTypeValues
    /\ intent.confidence >= 0
    /\ intent.confidence <= Unit

\* C27: every intent classifyIntentLocal or classifyIntentWithAI returns has a
\* type among the ten enumeration values and a confidence between 0 and 1,
\* whatever the remote model answered
C27_IntentWellFormed ==
    /\ Classified => WellFormedIntent(ciLocal)
    /\ (ciPc = "returned" /\ ciResult.state = "returned") => WellFormedIntent(ciResult.value)

(***************************************************************************)
(* lib/nlp/suggestions.ts and GET /api/suggestions                         *)
(***************************************************************************)
RECURSIVE StringTrim(_)
\* String.prototype.trim
StringTrim(s) ==
    IF s = <<>> THEN s
    ELSE IF Head(s) \in Spaces THEN StringTrim(Tail(s))
    ELSE IF s[Len(s)] \in Spaces THEN StringTrim(SubSeq(s, 1, Len(s) - 1))
    ELSE s

\* String.prototype.startsWith
StartsWith(s, prefix) == Len(prefix) <= Len(s) /\ SubSeq(s, 1, Len(prefix)) = prefix

\* String.prototype.endsWith
EndsWith(s, suffix) ==
    Len(suffix) <= Len(s) /\ SubSeq(s, Len(s) - Len(suffix) + 1, Len(s)) = suffix

\* String.prototype.includes
StringIncludes(s, part) ==
    \E i \in 0..(Len(s) - Len(part)) : SubSeq(s, i + 1, i + Len(part)) = part

RECURSIVE SplitSpaces(_)
\* s.split(/\s+/)
SplitSpaces(s) ==
    IF \A i \in 1..Len(s) : s[i] \notin Spaces THEN <<s>>
    ELSE LET i == CHOOSE k \in 1..Len(s) :
                      s[k] \in Spaces /\ \A h \in 1..(k - 1) : s[h] \notin Spaces
             j == CHOOSE k \in (i + 1)..(Len(s) + 1) :
                      /\ \A h \in i..(k - 1) : s[h] \in Spaces
                      /\ k = Len(s) + 1 \/ s[k] \notin Spaces
         IN  <<SubSeq(s, 1, i - 1)>> \o SplitSpaces(SubSeq(s, j, Len(s)))

RECURSIVE JoinSpaces(_)
\* words.join(' ')
JoinSpaces(words) ==
    IF words = <<>> THEN <<>>
    ELSE IF Len(words) = 1 THEN words[1]
    ELSE words[1] \o <<" ">> \o JoinSpaces(Tail(words))

\* Object.entries(queryPatterns), in the order of the literal
queryPatterns ==
    <<
      [pattern |-> <<"h", "o", "w", " ", "t", "o">>,
       completions |->
         <<<<"i", "n", "s", "t", "a", "l", "l">>,
           <<"u", "s", "e">>,
           <<"f", "i", "x">>,
           <<"c", "o", "n", "f", "i", "g", "u", "r", "e">>,
           <<"d", "e", "p", "l", "o", "y">>,
           <<"b", "u", "i", "l", "d">>,
           <<"c", "r", "e", "a", "t", "e">>,
           <<"s", "e", "t", "u", "p">>>>],
      [pattern |-> <<"w", "h", "a", "t", " ", "i", "s">>,
       completions |->
         <<<<"t", "h", "e", " ", "d", "i", "f", "f", "e", "r", "e", "n", "c", "e", " ", "b", "e", "t", "w", "e", "e", "n">>,
           <<"t", "h", "e", " ", "b", "e", "s", "t">>,
           <<"a", " ", "g", "o", "o", "d">>,
           <<"t", "h", "e", " ", "p", "u", "r", "p", "o", "s", "e", " ", "o", "f">>,
           <<"t", "h", "e", " ", "m", "e", "a", "n", "i", "n", "g", " ", "o", "f">>>>],
      [pattern |-> <<"w", "h", "y", " ", "d", "o", "e", "s">>,
       completions |->
         <<<<"m", "y", " ", "c", "o", "d", "e">>,
           <<"t", "h", "i", "s", " ", "e", "r", "r", "o", "r">>,
           <<"t", "h", "e", " ", "p", "r", "o", "g", "r", "a", "m">>,
           <<"j", "a", "v", "a", "s", "c", "r", "i", "p", "t">>,
           <<"p", "y", "t", "h", "o", "n">>,
           <<"r", "e", "a", "c", "t">>>>],
      [pattern |-> <<"e", "r", "r", "o", "r">>,
       completions |->
         <<<<"m", "e", "s", "s", "a", "g", "e">>,
           <<"h", "a", "n", "d", "l", "i", "n", "g">>,
           <<"i", "n", " ", "j", "a", "v", "a", "s", "c", "r", "i", "p", "t">>,
           <<"i", "n", " ", "p", "y", "t", "h", "o", "n">>,
           <<"f", "i", "x">>,
           <<"u", "n", "d", "e", "f", "i", "n", "e", "d">>,
           <<"n", "u", "l", "l">>>>],
      [pattern |-> <<"r", "e", "a", "c", "t">>,
       completions |->
         <<<<"h", "o", "o", "k", "s">>,
           <<"c", "o", "m", "p", "o", "n", "e", "n", "t">>,
           <<"u", "s", "e", "E", "f", "f", "e", "c", "t">>,
           <<"u", "s", "e", "S", "t", "a", "t", "e">>,
           <<"c", "o", "n", "t", "e", "x", "t">>,
           <<"r", "o", "u", "t", "e", "r">>,
           <<"t", "y", "p", "e", "s", "c", "r", "i", "p", "t">>>>],
      [pattern |-> <<"p", "y", "t", "h", "o", "n">>,
       completions |->
         <<<<"t", "u", "t", "o", "r", "i", "a", "l">>,
           <<"l", "i", "s", "t">>,
           <<"d", "i", "c", "t", "i", "o", "n", "a", "r", "y">>,
           <<"p", "a", "n", "d", "a", "s">>,
           <<"n", "u", "m", "p", "y">>,
           <<"f", "u", "n", "c", "t", "i", "o", "n">>,
           <<"c", "l", "a", "s", "s">>>>],
      [pattern |-> <<"j", "a", "v", "a", "s", "c", "r", "i", "p", "t">>,
       completions |->
         <<<<"a", "r", "r", "a", "y">>,
           <<"o", "b", "j", "e", "c", "t">>,
           <<"a", "s", "y", "n", "c", " ", "a", "w", "a", "i", "t">>,
           <<"p", "r", "o", "m", "i", "s", "e">>,
           <<"f", "u", "n", "c", "t", "i", "o", "n">>,
           <<"c", "l", "a", "s", "s">>,
           <<"e", "s", "6">>>>],
      [pattern |-> <<"a", "p", "i">>,
       completions |->
         <<<<"e", "n", "d", "p", "o", "i", "n", "t">>,
           <<"d", "o", "c", "u", "m", "e", "n", "t", "a", "t", "i", "o", "n">>,
           <<"a", "u", "t", "h", "e", "n", "t", "i", "c", "a", "t", "i", "o", "n">>,
           <<"r", "e", "s", "t">>,
           <<"g", "r", "a", "p", "h", "q", "l">>,
           <<"r", "a", "t", "e", " ", "l", "i", "m", "i", "t">>>>],
      [pattern |-> <<"d", "o", "c", "k", "e", "r">>,
       completions |->
         <<<<"c", "o", "m", "p", "o", "s", "e">>,
           <<"c", "o", "n", "t", "a", "i", "n", "e", "r">>,
           <<"i", "m", "a", "g", "e">>,
           <<"b", "u", "i", "l", "d">>,
           <<"r", "u", "n">>,
           <<"v", "o", "l", "u", "m", "e">>,
           <<"n", "e", "t", "w", "o", "r", "k">>>>],
      [pattern |-> <<"g", "i", "t">>,
       completions |->
         <<<<"c", "o", "m", "m", "i", "t">>,
           <<"p", "u", "s", "h">>,
           <<"p", "u", "l", "l">>,
           <<"m", "e", "r", "g", "e">>,
           <<"r", "e", "b", "a", "s", "e">>,
           <<"b", "r", "a", "n", "c", "h">>,
           <<"c", "h", "e", "c", "k", "o", "u", "t">>,
           <<"r", "e", "s", "e", "t">>>>],
      [pattern |-> <<"w", "h", "o", "i", "s">>,
       completions |->
         <<<<"l", "o", "o", "k", "u", "p">>,
           <<"d", "o", "m", "a", "i", "n">>,
           <<"i", "p">>,
           <<"h", "i", "s", "t", "o", "r", "y">>,
           <<"p", "r", "i", "v", "a", "c", "y">>>>],
      [pattern |-> <<"i", "p">>,
       completions |->
         <<<<"a", "d", "d", "r", "e", "s", "s">>,
           <<"l", "o", "o", "k", "u", "p">>,
           <<"g", "e", "o", "l", "o", "c", "a", "t", "i", "o", "n">>,
           <<"r", "e", "p", "u", "t", "a", "t", "i", "o", "n">>,
           <<"r", "a", "n", "g", "e">>,
           <<"b", "l", "o", "c", "k">>>>],
      [pattern |-> <<"c", "v", "e">>,
       completions |->
         <<<<"2", "0", "2", "4">>,
           <<"2", "0", "2", "5">>,
           <<"c", "r", "i", "t", "i", "c", "a", "l">>,
           <<"v", "u", "l", "n", "e", "r", "a", "b", "i", "l", "i", "t", "y">>,
           <<"e", "x", "p", "l", "o", "i", "t">>,
           <<"p", "a", "t", "c", "h">>>>],
      [pattern |-> <<"d", "o", "m", "a", "i", "n">>,
       completions |->
         <<<<"l", "o", "o", "k", "u", "p">>,
           <<"h", "i", "s", "t", "o", "r", "y">>,
           <<"d", "n", "s">>,
           <<"s", "s", "l">>,
           <<"e", "x", "p", "i", "r", "a", "t", "i", "o", "n">>,
           <<"o", "w", "n", "e", "r">>>>],
      [pattern |-> <<"r", "e", "s", "e", "a", "r", "c", "h">>,
       completions |->
         <<<<"p", "a", "p", "e", "r">>,
           <<"s", "t", "u", "d", "y">>,
           <<"m", "e", "t", "h", "o", "d", "o", "l", "o", "g", "y">>,
           <<"f", "i", "n", "d", "i", "n", "g", "s">>,
           <<"d", "a", "t", "a">>>>],
      [pattern |-> <<"s", "t", "u", "d", "y">>,
       completions |->
         <<<<"o", "n">>,
           <<"a", "b", "o", "u", "t">>,
           <<"s", "h", "o", "w", "s">>,
           <<"f", "i", "n", "d", "s">>,
           <<"r", "e", "s", "u", "l", "t", "s">>>>],
      [pattern |-> <<"s", "t", "a", "t", "i", "s", "t", "i", "c", "s">>,
       completions |->
         <<<<"o", "n">>,
           <<"a", "b", "o", "u", "t">>,
           <<"d", "a", "t", "a">>,
           <<"g", "r", "a", "p", "h">>,
           <<"c", "h", "a", "r", "t">>>>]
    >>

\* the prefix of each entry of operators
operators ==
    <<<<"s", "i", "t", "e", ":">>,
      <<"f", "i", "l", "e", "t", "y", "p", "e", ":">>,
      <<"i", "n", "t", "i", "t", "l", "e", ":">>,
      <<"@">>,
      <<"i", "p", ":">>,
      <<"d", "o", "m", "a", "i", "n", ":">>,
      <<"c", "v", "e", ":">>,
      <<"d", "o", "i", ":">>>>

intentRefinements ==
    [tech |->
        <<<<"t", "u", "t", "o", "r", "i", "a", "l">>,
          <<"e", "x", "a", "m", "p", "l", "e">>,
          <<"d", "o", "c", "u", "m", "e", "n", "t", "a", "t", "i", "o", "n">>,
          <<"b", "e", "s", "t", " ", "p", "r", "a", "c", "t", "i", "c", "e", "s">>,
          <<"v", "s">>,
          <<"a", "l", "t", "e", "r", "n", "a", "t", "i", "v", "e">>>>,
     security |->
        <<<<"e", "x", "p", "l", "o", "i", "t">>,
          <<"p", "a", "t", "c", "h">>,
          <<"m", "i", "t", "i", "g", "a", "t", "i", "o", "n">>,
          <<"a", "f", "f", "e", "c", "t", "e", "d", " ", "v", "e", "r", "s", "i", "o", "n", "s">>,
          <<"p", "r", "o", "o", "f", " ", "o", "f", " ", "c", "o", "n", "c", "e", "p", "t">>>>,
     research |->
        <<<<"p", "d", "f">>,
          <<"c", "i", "t", "a", "t", "i", "o", "n">>,
          <<"m", "e", "t", "h", "o", "d", "o", "l", "o", "g", "y">>,
          <<"r", "e", "s", "u", "l", "t", "s">>,
          <<"d", "a", "t", "a">>,
          <<"p", "e", "e", "r", " ", "r", "e", "v", "i", "e", "w", "e", "d">>>>,
     company |->
        <<<<"s", "t", "o", "c", "k">>,
          <<"r", "e", "v", "e", "n", "u", "e">>,
          <<"e", "m", "p", "l", "o", "y", "e", "e", "s">>,
          <<"f", "o", "u", "n", "d", "e", "d">>,
          <<"h", "e", "a", "d", "q", "u", "a", "r", "t", "e", "r", "s">>,
          <<"c", "e", "o">>>>,
     person |->
        <<<<"b", "i", "o", "g", "r", "a", "p", "h", "y">>,
          <<"n", "e", "t", " ", "w", "o", "r", "t", "h">>,
          <<"c", "a", "r", "e", "e", "r">>,
          <<"s", "o", "c", "i", "a", "l", " ", "m", "e", "d", "i", "a">>,
          <<"c", "o", "n", "t", "a", "c", "t">>>>,
     domain |->
        <<<<"h", "i", "s", "t", "o", "r", "y">>,
          <<"o", "w", "n", "e", "r">>,
          <<"d", "n", "s", " ", "r", "e", "c", "o", "r", "d", "s">>,
          <<"s", "s", "l", " ", "c", "e", "r", "t", "i", "f", "i", "c", "a", "t", "e">>,
          <<"a", "r", "c", "h", "i", "v", "e">>>>,
     ip |->
        <<<<"g", "e", "o", "l", "o", "c", "a", "t", "i", "o", "n">>,
          <<"i", "s", "p">>,
          <<"r", "e", "p", "u", "t", "a", "t", "i", "o", "n">>,
          <<"a", "b", "u", "s", "e", " ", "r", "e", "p", "o", "r", "t", "s">>,
          <<"a", "s", "n">>>>,
     username |->
        <<<<"t", "w", "i", "t", "t", "e", "r">>,
          <<"g", "i", "t", "h", "u", "b">>,
          <<"l", "i", "n", "k", "e", "d", "i", "n">>,
          <<"r", "e", "d", "d", "i", "t">>,
          <<"i", "n", "s", "t", "a", "g", "r", "a", "m">>>>]

getTrendingQueries ==
    <<<<"r", "e", "a", "c", "t", " ", "1", "9", " ", "n", "e", "w", " ", "f", "e", "a", "t", "u", "r", "e", "s">>,
      <<"o", "p", "e", "n", "a", "i", " ", "a", "p", "i", " ", "t", "u", "t", "o", "r", "i", "a", "l">>,
      <<"n", "e", "x", "t", "j", "s", " ", "1", "5", " ", "m", "i", "g", "r", "a", "t", "i", "o", "n">>,
      <<"t", "a", "i", "l", "w", "i", "n", "d", " ", "c", "s", "s", " ", "v", "4">>,
      <<"r", "u", "s", "t", " ", "v", "s", " ", "g", "o", " ", "2", "0", "2", "4">>,
      <<"k", "u", "b", "e", "r", "n", "e", "t", "e", "s", " ", "b", "e", "s", "t", " ", "p", "r", "a", "c", "t", "i", "c", "e", "s">>,
      <<"C", "V", "E", "-", "2", "0", "2", "4", " ", "c", "r", "i", "t", "i", "c", "a", "l", " ", "v", "u", "l", "n", "e", "r", "a", "b", "i", "l", "i", "t", "i", "e", "s">>,
      <<"m", "a", "c", "h", "i", "n", "e", " ", "l", "e", "a", "r", "n", "i", "n", "g", " ", "b", "a", "s", "i", "c", "s">>>>
\* the terms generateRelatedQueries appends
TermBestPractices == <<"b", "e", "s", "t", " ", "p", "r", "a", "c", "t", "i", "c", "e", "s">>

TermAlternativesTo == <<"a", "l", "t", "e", "r", "n", "a", "t", "i", "v", "e", "s", " ", "t", "o">>

TermVulnerabilities == <<"v", "u", "l", "n", "e", "r", "a", "b", "i", "l", "i", "t", "i", "e", "s">>

TermRecentStudies == <<"r", "e", "c", "e", "n", "t", " ", "s", "t", "u", "d", "i", "e", "s">>

TermStatistics2024 == <<"s", "t", "a", "t", "i", "s", "t", "i", "c", "s", " ", "2", "0", "2", "4">>
\* a Suggestion; intent is "" where the code leaves it out
Suggestion(text, type, confidence, intent) ==
    [text |-> text, type |-> type, confidence |-> confidence, intent |-> intent]

\* operators.slice(0, 4), each with confidence 0.9
getOperatorSuggestions ==
    [k \in 1..4 |-> Suggestion(operators[k], "operator", 900000, "")]

\* the suggestions of one entry of queryPatterns
PatternCompletions(entry, query, queryLower, lastWord, queryWithoutLast, intent) ==
    IF StringIncludes(queryLower, entry.pattern) \/ StartsWith(entry.pattern, queryLower)
    THEN LET fits == SelectSeq(entry.completions,
                               LAMBDA completion :
                                   StartsWith(completion, lastWord) \/ Len(lastWord) < 2)
         IN  [k \in 1..Len(fits) |->
                 Suggestion(IF EndsWith(queryLower, <<" ">>)
                            THEN query \o fits[k]
                            ELSE StringTrim(queryWithoutLast \o <<" ">> \o fits[k]),
                            "completion", 800000, intent.type)]
    ELSE <<>>

\* 2. Intent-based refinements
Refinements(query, queryLower, intent) ==
    LET refinements == IF intent.type \in DOMAIN intentRefinements
                       THEN intentRefinements[intent.type]
                       ELSE intentRefinements.tech
        kept == SelectSeq(refinements, LAMBDA refinement : ~StringIncludes(queryLower, refinement))
    IN  [k \in 1..Len(kept) |->
            Suggestion(query \o <<" ">> \o kept[k], "refinement", 700000, intent.type)]

generateRelatedQueries(query, intent) ==
    (IF intent.type = "tech"
     THEN << Suggestion(query \o <<" ">> \o TermBestPractices, "related", 600000, "tech"),
             Suggestion(query \o <<" ">> \o TermAlternativesTo, "related", 600000, "tech") >>
     ELSE <<>>)
    \o (IF intent.type \in {"domain", "ip"}
        THEN << Suggestion(query \o <<" ">> \o TermVulnerabilities, "related", 650000, "security") >>
        ELSE <<>>)
    \o (IF intent.type = "research"
        THEN << Suggestion(query \o <<" ">> \o TermRecentStudies, "related", 650000, "research"),
                Suggestion(query \o <<" ">> \o TermStatistics2024, "related", 600000, "research") >>
        ELSE <<>>)

getContextualOperatorSuggestions(query) ==
    (IF StartsWith(query, <<"@">>)
     THEN << Suggestion(<<"@">> \o Tail(query), "operator", 950000, "username") >>
     ELSE <<>>)
    \o (IF StartsWith(query, <<"i", "p", ":">>)
        THEN << Suggestion(query, "operator", 950000, "ip") >>
        ELSE <<>>)

RECURSIVE UniqueByText(_)
\* the filter over the Set `seen`: the first suggestion of each lower-cased text
UniqueByText(suggestions) ==
    IF suggestions = <<>> THEN <<>>
    ELSE LET front == UniqueByText(SubSeq(suggestions, 1, Len(suggestions) - 1))
             last == suggestions[Len(suggestions)]
         IN  IF \E k \in 1..Len(front) : toLowerCase(front[k].text) = toLowerCase(last.text)
             THEN front
             ELSE Append(front, last)

\* generateSuggestions with the early return for a short query left out
generateSuggestionsAlwaysBuilt(query, limit) ==
    LET queryLower == StringTrim(toLowerCase(query))
        words == SplitSpaces(queryLower)
        lastWord == words[Len(words)]
        queryWithoutLast == JoinSpaces(SubSeq(words, 1, Len(words) - 1))
        intent == classifyIntentLocal(query)
        completions ==
            Flat([k \in 1..Len(queryPatterns) |->
                     PatternCompletions(queryPatterns[k], query, queryLower, lastWord,
                                        queryWithoutLast, intent)])
        suggestions ==
            (IF \/ StartsWith(query, <<"@">>)
                \/ StartsWith(query, <<"i", "p", ":">>)
                \/ StartsWith(query, <<"s", "i", "t", "e", ":">>)
             THEN getContextualOperatorSuggestions(query) ELSE <<>>)
            \o completions
            \o Refinements(query, queryLower, intent)
            \o generateRelatedQueries(query, intent)
    IN  Slice0(ArraySort("confidence", UniqueByText(suggestions)), limit)

generateSuggestions(query, limit) ==
    IF Len(query) < 2 THEN getOperatorSuggestions
    ELSE generateSuggestionsAlwaysBuilt(query, limit)

\* ""
PartialEmpty == <<>>

\* "a"
PartialOneChar == <<"a">>

\* "py"
PartialPy == <<"p", "y">>

\* "python"
PartialPython == <<"p", "y", "t", "h", "o", "n">>

\* "python tut"
PartialPythonTut == <<"p", "y", "t", "h", "o", "n", " ", "t", "u", "t">>

\* "Error"
PartialError == <<"E", "r", "r", "o", "r">>

\* "@ab"
PartialHandle == <<"@", "a", "b">>

\* "ip:1"
PartialIp == <<"i", "p", ":", "1">>

\* " rust "
PartialPadded == <<" ", "r", "u", "s", "t", " ">>

\* "research paper"
PartialResearch == <<"r", "e", "s", "e", "a", "r", "c", "h", " ", "p", "a", "p", "e", "r">>

\* "example.com"
PartialDomain == <<"e", "x", "a", "m", "p", "l", "e", ".", "c", "o", "m">>

\* the partial queries of the model
SuggestQueries ==
    { PartialEmpty, PartialOneChar, PartialPy, PartialPython, PartialPythonTut, PartialError,
      PartialHandle, PartialIp, PartialPadded, PartialResearch, PartialDomain }

\* the limits a caller asks for
SuggestLimits == { -1, 0, 1, 2, 8, 20 }

\* Math.min(parseInt(limit), 15)
EndpointLimit(limit) == Min(limit, 15)

\* what the remote model may answer with: two suggestions of one text, the
\* less confident first
RemoteSuggestions ==
    << Suggestion(PartialPython, "completion", 500000, ""),
       Suggestion(PartialPython, "related", 900000, "") >>

\* how the chat-completions call of generateSuggestionsWithAI can end, with the
\* parsed content where there is one
SuggestReplies ==
    { [kind |-> "rejected"], [kind |-> "not_ok"], [kind |-> "bad_body"],
      [kind |-> "no_content"], [kind |-> "unparsable"],
      [kind |-> "parsed", list |-> <<>>],
      [kind |-> "parsed", list |-> RemoteSuggestions] }

\* generateSuggestionsWithAI from the point its fetch settles
generateSuggestionsWithAI(query, limit, reply) ==
    IF reply.kind = "parsed" THEN Slice0(reply.list, limit)
    ELSE generateSuggestions(query, limit)

\* getTrendingQueries().slice(0, limit).map(...)
TrendingSuggestions(limit) ==
    WithValue(Slice0(getTrendingQueries, limit), LAMBDA texts :
        [k \in 1..Len(texts) |-> Suggestion(texts[k], "trending", 800000, "")])

SuggestInit ==
    /\ sgQuery \in SuggestQueries
    /\ sgLimit \in SuggestLimits
    /\ sgVia \in {"function", "endpoint"}
    /\ sgRemote \in BOOLEAN
    /\ sgVia = "function" => ~sgRemote
    /\ sgResult = <<>>
    /\ sgPc = "start"
    /\ MergeIdle
    /\ RankIdle
    /\ ApiIdle
    /\ IntentIdle
    /\ CacheIdle
    /\ HookIdle

\* a caller runs generateSuggestions(query, limit)
GenerateSuggestions ==
    /\ sgPc = "start"
    /\ sgVia = "function"
    /\ sgResult' = generateSuggestions(sgQuery, sgLimit)
    /\ sgPc' = "done"
    /\ UNCHANGED <<sgQuery, sgLimit, sgVia, sgRemote, mergeVars, rankVars, apiVars, intentVars, cacheVars, hookVars>>

\* GET /api/suggestions up to its response or its await
SuggestionsGet ==
    /\ sgPc = "start"
    /\ sgVia = "endpoint"
    /\ LET query == StringTrim(sgQuery)
           limit == EndpointLimit(sgLimit)
       IN  IF query = <<>>
           THEN /\ sgResult' = TrendingSuggestions(limit)
                /\ sgPc' = "done"
           ELSE IF sgRemote
           THEN /\ sgPc' = "awaiting"
                /\ UNCHANGED sgResult
           ELSE /\ sgResult' = generateSuggestions(query, limit)
                /\ sgPc' = "done"
    /\ UNCHANGED <<sgQuery, sgLimit, sgVia, sgRemote, mergeVars, rankVars, apiVars, intentVars, cacheVars, hookVars>>

\* the chat-completions call of generateSuggestionsWithAI settles
SuggestRemoteSettles ==
    /\ sgPc = "awaiting"
    /\ \E reply \in SuggestReplies :
          sgResult' = generateSuggestionsWithAI(StringTrim(sgQuery), EndpointLimit(sgLimit), reply)
    /\ sgPc' = "done"
    /\ UNCHANGED <<sgQuery, sgLimit, sgVia, sgRemote, mergeVars, rankVars, apiVars, intentVars, cacheVars, hookVars>>

SuggestNext == GenerateSuggestions \/ SuggestionsGet \/ SuggestRemoteSettles

SpecSuggest == SuggestInit /\ [][SuggestNext]_vars

\* C25: for every partial query and every limit that is not negative, the
\* suggestions returned by generateSuggestions and by the suggestions endpoint
\* are at most limit, no two of them have the same text when letter case is
\* ignored, and their confidences do not increase along the list
C25_SuggestionsBounded ==
    (sgPc = "done" /\ sgLimit >= 0) =>
        /\ Len(sgResult) <= sgLimit
        /\ \A i, j \in 1..Len(sgResult) :
              i < j =>
                  /\ toLowerCase(sgResult[i].text) # toLowerCase(sgResult[j].text)
                  /\ sgResult[i].confidence >= sgResult[j].confidence

(***************************************************************************)
(* fullRankingPipeline as the search route runs it, after mergeResults     *)
(***************************************************************************)
RerankTop == 30

RankSources == { "cve", "reddit" }

RankScores == { NoScore, 0, 500000, 1000000 }

RankTitles == { <<"Rust">>, <<"go">> }

RankTimestamps == { NoTimestamp, Now - 3600 }

RankPool ==
    [title : RankTitles, description : {<<"notes">>}, source : RankSources,
     score : RankScores, timestamp : RankTimestamps]

\* the i-th result of an input has its own URL, so no two are URL duplicates
RankUrl(i) ==
    [scheme |-> "https", host |-> <<"x", "com">>, pathname |-> <<"p", ToString(i)>>, search |-> ""]

RankResult(content, i) ==
    [url |-> RankUrl(i), title |-> content.title, description |-> content.description,
     source |-> content.source, score |-> content.score, timestamp |-> content.timestamp]

\* every list of at most `most` results of the pool
RankInputs(most) ==
    UNION {{[i \in 1..n |-> RankResult(c[i], i)] : c \in [1..n -> RankPool]} : n \in 0..most}

RankQueries == { <<"rust">>, <<"rustlang", "go">> }

RankIntents ==
    { [type |-> "security", confidence |-> 980000],
      [type |-> "general", confidence |-> 500000] }

\* the embedding vectors the remote service may answer with
EmbeddingVectors == { <<1, 0>>, <<0, 1>>, <<-1, 0>> }

\* what getEmbeddings may return when n texts were sent: null, or one vector per
\* item of data.data (the service decides how many)
EmbeddingResponses(n) ==
    {NoEmbeddings} \cup UNION {[1..k -> EmbeddingVectors] : k \in 2..n}

\* how an answer of getEmbeddings to `texts` texts is told apart: null, fewer
\* vectors than texts, or one vector per text
ReplyKind(embeddings, texts) ==
    IF embeddings = NoEmbeddings THEN "null"
    ELSE IF Len(embeddings) < texts THEN "short"
    ELSE "full"

RankInit ==
    /\ rkQuery \in RankQueries
    /\ rkIntent \in RankIntents
    /\ rkSemantic \in BOOLEAN
    /\ rkInput \in RankInputs(MaxRanked)
    /\ rkMerged = <<>>
    /\ rkRanked = <<>>
    /\ rkFinal = <<>>
    /\ rkCap = 0
    /\ rkDiverse = <<>>
    /\ rkReply = "none"
    /\ rkPc = "input"
    /\ MergeIdle
    /\ ApiIdle
    /\ IntentIdle
    /\ MoreIdle

\* searchAllSources: mergedResults = mergeResults(allResults)
RankMerge ==
    /\ rkPc = "input"
    /\ rkMerged' = mergeResults(<<rkInput>>)
    /\ rkPc' = "merged"
    /\ UNCHANGED <<rkQuery, rkIntent, rkSemantic, rkInput, rkRanked, rkFinal, rkCap, rkDiverse,
                   rkReply,
                   mergeVars, apiVars, intentVars, moreVars>>

\* fullRankingPipeline up to its first await: the first pass, and the lexical
\* re-rank when the semantic pass is off
FirstPass ==
    /\ rkPc = "merged"
    /\ IF Len(rkMerged) = 0
       THEN /\ rkFinal' = rkMerged
            /\ rkPc' = "done"
            /\ UNCHANGED rkRanked
       ELSE /\ rkRanked' = rankResults(rkMerged, rkIntent)
            /\ IF rkSemantic
               THEN /\ rkPc' = "embedding"
                    /\ UNCHANGED rkFinal
               ELSE /\ rkFinal' = rerankWithLocalSimilarity(rkQuery, rkRanked')
                    /\ rkPc' = "done"
    /\ UNCHANGED <<rkQuery, rkIntent, rkSemantic, rkInput, rkMerged, rkCap, rkDiverse,
                   rkReply,
                   mergeVars, apiVars, intentVars, moreVars>>

\* getEmbeddings settles with `embeddings`; rerankWithEmbeddings finishes.  An
\* answer with fewer vectors than texts makes cosineSimilarity read the length
\* of undefined, which throws.
SemanticPass ==
    /\ rkPc = "embedding"
    /\ \E embeddings \in EmbeddingResponses(Len(Slice0(rkRanked, RerankTop)) + 1) :
          LET topResults == Slice0(rkRanked, RerankTop)
              rest == SubSeq(rkRanked, Len(topResults) + 1, Len(rkRanked))
          IN  /\ rkReply' = ReplyKind(embeddings, Len(topResults) + 1)
              /\ IF Len(embeddings) >= 2 /\ Len(embeddings) < Len(topResults) + 1
                 THEN /\ rkPc' = "threw"
                      /\ UNCHANGED rkFinal
                 ELSE /\ rkFinal' = rerankWithEmbeddings(topResults, embeddings) \o rest
                      /\ rkPc' = "done"
    /\ UNCHANGED <<rkQuery, rkIntent, rkSemantic, rkInput, rkMerged, rkRanked, rkCap, rkDiverse,
                   mergeVars, apiVars, intentVars, moreVars>>

\* the values of maxPerSource the ranked list is diversified with
PerSourceCaps == { 1, 2, 5 }

\* diversified = diversifyResults(ranked, maxPerSource)
Diversify ==
    /\ rkPc = "done"
    /\ \E maxPerSource \in PerSourceCaps :
          /\ rkCap' = maxPerSource
          /\ rkDiverse' = diversifyResults(rkFinal, maxPerSource)
    /\ rkPc' = "diversified"
    /\ UNCHANGED <<rkQuery, rkIntent, rkSemantic, rkInput, rkMerged, rkRanked, rkFinal, rkReply,
                   mergeVars, apiVars, intentVars, moreVars>>

RankNext == RankMerge \/ FirstPass \/ SemanticPass \/ Diversify

SpecRank == RankInit /\ [][RankNext]_vars

ScoreInUnitInterval(r) == r.score = NoScore \/ (0 <= r.score /\ r.score <= Unit)

AllInUnitInterval(results) == \A i \in 1..Len(results) : ScoreInUnitInterval(results[i])

\* C4: with source scores and the intent confidence in [0,1], every score is in
\* [0,1] after merge, after rank, after the semantic re-rank and after the
\* lexical re-rank
C4_ScoresStayInUnitInterval ==
    /\ AllInUnitInterval(rkMerged)
    /\ AllInUnitInterval(rkRanked)
    /\ AllInUnitInterval(rkFinal)

\* C12: merge's output is in descending score order; of two results with equal
\* score the earlier one has a timestamp whenever the later one has, and it is
\* then at least as new
C12_MergeOrder ==
    rkPc # "input" =>
        \A i, j \in 1..Len(rkMerged) :
            i < j =>
                /\ ScoreOrZero(rkMerged[i]) >= ScoreOrZero(rkMerged[j])
                /\ (rkMerged[i].score = rkMerged[j].score
                        /\ rkMerged[j].timestamp # NoTimestamp) =>
                       /\ rkMerged[i].timestamp # NoTimestamp
                       /\ rkMerged[i].timestamp >= rkMerged[j].timestamp

\* a result without its score, which the ranking replaces
Unscored(r) == [r EXCEPT !.score = NoScore]

\* the first pass has run on a non-empty list
FirstPassDone == rkPc \in {"embedding", "done", "threw", "diversified"} /\ rkMerged # <<>>

\* C14: the list rankResults returns holds the results of its input, each as
\* often as the input holds it and none besides, and its scores never increase
\* from one place to the next
C14_RankPermutesAndSorts ==
    FirstPassDone =>
        /\ Len(rkRanked) = Len(rkMerged)
        /\ \A i \in 1..Len(rkMerged) :
              Cardinality({k \in 1..Len(rkRanked) : Unscored(rkRanked[k]) = Unscored(rkMerged[i])})
                  = Cardinality({k \in 1..Len(rkMerged) : Unscored(rkMerged[k]) = Unscored(rkMerged[i])})
        /\ \A i \in 1..(Len(rkRanked) - 1) : rkRanked[i].score >= rkRanked[i + 1].score

\* rankResults moved the second result of its input to the front
C14_Witness ==
    /\ FirstPassDone
    /\ Len(rkMerged) >= 2
    /\ Unscored(rkRanked[1]) = Unscored(rkMerged[2])
    /\ rkRanked[1].score > rkRanked[2].score

RECURSIVE IsSubsequence(_, _)
\* sub is s with some places left out, the order kept
IsSubsequence(sub, s) ==
    IF sub = <<>> THEN TRUE
    ELSE IF s = <<>> THEN FALSE
    ELSE IF Head(sub) = Head(s) THEN IsSubsequence(Tail(sub), Tail(s))
    ELSE IsSubsequence(sub, Tail(s))

\* C15: diversifyResults(results, k) returns at most k results of any one
\* source, the results it returns are results of the input in the input's
\* order, and a result of the input is missing only if k results of its source
\* come before it in the input
C15_DiversifyCapsEachSource ==
    rkPc = "diversified" =>
        /\ \A i \in 1..Len(rkDiverse) :
              Cardinality({k \in 1..Len(rkDiverse) : rkDiverse[k].source = rkDiverse[i].source})
                  <= rkCap
        /\ IsSubsequence(rkDiverse, rkFinal)
        /\ \A i \in 1..Len(rkFinal) :
              rkFinal[i] \notin Range(rkDiverse) =>
                  Cardinality({j \in 1..(i - 1) : rkFinal[j].source = rkFinal[i].source}) >= rkCap

\* a result was left out because its source had reached the cap
C15_Witness ==
    /\ rkPc = "diversified"
    /\ Len(rkDiverse) < Len(rkFinal)
    /\ rkDiverse # <<>>

\* C21: when the embedding call has failed (getEmbeddings gave null, or gave
\* fewer vectors than texts), fullRankingPipeline does not raise and returns the
\* first-pass list, in its order and with its scores
C21_SemanticPassNonFatal ==
    /\ rkPc # "threw"
    /\ (rkPc \in {"done", "diversified"} /\ rkReply \in {"null", "short"}) =>
          rkFinal = rkRanked

\* the composite the text gives: base is the source-reported score whenever one
\* is present, and 0.5 only when none is
StatedScore(result, intent) ==
    LET base == IF result.score = NoScore THEN Unit \div 2 ELSE result.score
        trust == IF result.source \in DOMAIN sourceTrustScores
                 THEN sourceTrustScores[result.source] ELSE Unit \div 2
        affinity ==
            IF /\ intent.type \in DOMAIN intentSourceRelevance
               /\ result.source \in DOMAIN intentSourceRelevance[intent.type]
            THEN intentSourceRelevance[intent.type][result.source]
            ELSE IF result.source \in DOMAIN defaultRelevance
                 THEN defaultRelevance[result.source]
                 ELSE Unit \div 2
        age == Now - result.timestamp
        recency == IF result.timestamp = NoTimestamp THEN 0
                   ELSE IF age < DaySeconds THEN 100000
                   ELSE IF age < 7 * DaySeconds THEN 50000
                   ELSE IF age < 30 * DaySeconds THEN 20000
                   ELSE 0
    IN  Min(Unit, (4 * base + 2 * trust + 3 * affinity + intent.confidence) \div 10 + recency)

\* C22: after the first pass every result has the score min(1, 0.4 * base +
\* 0.2 * trust + 0.3 * affinity + 0.1 * confidence + recency), base being the
\* score the source reported, 0 included, and 0.5 only when it reported none;
\* so of two results that differ in the reported score alone, the one with the
\* higher reported score is not ranked lower
C22_CompositeScore ==
    FirstPassDone =>
        /\ \A i \in 1..Len(rkRanked) : \E k \in 1..Len(rkMerged) :
              /\ rkRanked[i].url = rkMerged[k].url
              /\ rkRanked[i].score = StatedScore(rkMerged[k], rkIntent)
        /\ \A i, j \in 1..Len(rkRanked) : \A k, l \in 1..Len(rkMerged) :
              ( /\ rkRanked[i].url = rkMerged[k].url
                /\ rkRanked[j].url = rkMerged[l].url
                /\ rkMerged[k].score # NoScore /\ rkMerged[l].score # NoScore
                /\ rkMerged[k].score <= rkMerged[l].score
                /\ [rkMerged[k] EXCEPT !.score = 0, !.url = 0]
                      = [rkMerged[l] EXCEPT !.score = 0, !.url = 0] )
              => rkRanked[i].score <= rkRanked[j].score

(***************************************************************************)
(* Inputs of the merge specification                                       *)
(***************************************************************************)
MergeUrls ==
    { [scheme |-> "https", host |-> <<"x", "com">>, pathname |-> <<"p">>, search |-> ""],
      [scheme |-> "https", host |-> <<"x", "com">>, pathname |-> <<"p", "">>, search |-> ""],
      [scheme |-> "http", host |-> <<"www", "y", "org">>, pathname |-> <<"q">>, search |-> ""] }

MergeTitles == { <<"Rust", "book">>, <<"go", "book">> }

MergeDescriptions == { <<"a", "guide">>, <<"long", "manual">> }

MergeSources == { "github", "npm" }

MergeScores == { 500000, 800000 }

MergePool ==
    [url : MergeUrls, title : MergeTitles, description : MergeDescriptions,
     source : MergeSources, score : MergeScores, timestamp : {NoTimestamp}]

\* the flattened inputs: every list of at most `most` results of the pool
FlatInputs(most) == UNION {[1..n -> MergePool] : n \in 0..most}

\* one list per result, as the adapters of distinct sources deliver them
Singletons(flat) == [i \in 1..Len(flat) |-> <<flat[i]>>]

MergeInit ==
    /\ mInput \in {Singletons(f) : f \in FlatInputs(MaxResults)}
    /\ mOutput = <<>>
    /\ mAgain = <<>>
    /\ mPc = "input"
    /\ RankIdle
    /\ ApiIdle
    /\ IntentIdle
    /\ MoreIdle

\* mergedResults = mergeResults(allResults)
Merge ==
    /\ mPc = "input"
    /\ mOutput' = mergeResults(mInput)
    /\ mPc' = "merged"
    /\ UNCHANGED <<mInput, mAgain, rankVars, apiVars, intentVars, moreVars>>

\* mergeResults applied to its own output
MergeAgain ==
    /\ mPc = "merged"
    /\ mAgain' = mergeResults(<<mOutput>>)
    /\ mPc' = "remerged"
    /\ UNCHANGED <<mInput, mOutput, rankVars, apiVars, intentVars, moreVars>>

MergeNext == Merge \/ MergeAgain

SpecMerge == MergeInit /\ [][MergeNext]_vars

\* C2: no two results of merge's output have equal normalized URLs
C2_NoEqualNormalizedUrls ==
    mPc = "merged" =>
        \A i, j \in 1..Len(mOutput) :
            i # j => normalizeUrl(mOutput[i].url) # normalizeUrl(mOutput[j].url)

\* C3: merging merge's own output returns it unchanged, same results in the same
\* order
C3_MergeIdempotent ==
    mPc = "remerged" => mAgain = mOutput

\* the input of the merge, flattened
FlatInput == Flat(mInput)

\* of an accepted result and a new duplicate of it, the one the text keeps:
\* the higher score, on equal score the longer description, else the accepted
Better(existing, new) ==
    IF ScoreOrZero(new) > ScoreOrZero(existing) THEN new
    ELSE IF ScoreOrZero(new) < ScoreOrZero(existing) THEN existing
    ELSE IF TextLength(new.description) > TextLength(existing.description) THEN new
    ELSE existing

\* C11: whenever the k-th result of the input duplicates a result accepted
\* from the results before it, the accepted list keeps its length and holds, in
\* the duplicate's place, the better of the two (higher score, then longer
\* description, then the accepted one), every other place unchanged; so two
\* duplicate inputs merge to the better one alone
C11_DuplicateKeepsTheBetter ==
    mPc = "merged" =>
        /\ \A k \in 1..Len(FlatInput) :
              LET before == deduplicateResults(SubSeq(FlatInput, 1, k - 1))
                  after == deduplicateResults(SubSeq(FlatInput, 1, k))
                  i == FindDuplicateIndex(before, FlatInput[k])
              IN  i # 0 =>
                      /\ Len(after) = Len(before)
                      /\ after[i] = Better(before[i], FlatInput[k])
                      /\ \A j \in 1..Len(before) : j # i => after[j] = before[j]
        /\ (Len(FlatInput) = 2 /\ areDuplicates(FlatInput[1], FlatInput[2])) =>
              mOutput = <<Better(FlatInput[1], FlatInput[2])>>

\* https://x.com/p with score 0.5 and https://x.com/p/ with score 0.8 were
\* merged, and one result with score 0.8 is left
C11_Witness ==
    /\ mPc = "merged"
    /\ Len(FlatInput) = 2
    /\ FlatInput[1].url.pathname = <<"p">> /\ FlatInput[1].score = 500000
    /\ FlatInput[2].url.pathname = <<"p", "">> /\ FlatInput[2].score = 800000
    /\ FlatInput[1].url.host = FlatInput[2].url.host
    /\ Len(mOutput) = 1
    /\ mOutput[1] = FlatInput[2]

\* how often result r occurs in list s
Occurrences(s, r) == Cardinality({i \in 1..Len(s) : s[i] = r})

\* C13: every result of merge's output is a result of the flattened input, used
\* at most as often as the input holds it, so the output is no longer than the
\* input
C13_MergeNeverGrows ==
    mPc = "merged" =>
        /\ \A i \in 1..Len(mOutput) :
              /\ Occurrences(FlatInput, mOutput[i]) >= 1
              /\ Occurrences(mOutput, mOutput[i]) <= Occurrences(FlatInput, mOutput[i])
        /\ Len(mOutput) <= Len(FlatInput)

\* three results were merged into two: one was dropped as a duplicate
C13_Witness ==
    /\ mPc = "merged"
    /\ Len(FlatInput) = 3
    /\ Len(mOutput) = 2

(***************************************************************************)
(* lib/sources/index.ts, over a registry cut down to three sources         *)
(***************************************************************************)
\* Object.keys(sourceAdapters), in declaration order
Registry == <<"wikipedia", "github", "cve">>

RegistrySet == Range(Registry)

\* keys every object literal inherits from Object.prototype: sourceAdapters[k]
\* is then a function of the runtime, neither an adapter nor undefined
PrototypeKeys == {"constructor"}

\* categorySourceMap, restricted to the sources of Registry
categorySourceMap ==
    [web      |-> <<"wikipedia">>,
     code     |-> <<"github">>,
     osint    |-> <<"cve">>,
     research |-> <<"wikipedia">>,
     news     |-> <<>>,
     all      |-> <<>>]

getSourcesForCategory(category) ==
    IF category = "all" THEN Registry
    ELSE IF category \in DOMAIN categorySourceMap THEN categorySourceMap[category]
    ELSE <<>>

RECURSIVE FlatMapCategories(_)
FlatMapCategories(categories) ==
    IF categories = <<>> THEN <<>>
    ELSE getSourcesForCategory(Head(categories)) \o FlatMapCategories(Tail(categories))

RECURSIVE Unique(_)
\* [...new Set(list)]: first occurrences, in order
Unique(list) ==
    IF list = <<>> THEN <<>>
    ELSE LET front == Unique(SubSeq(list, 1, Len(list) - 1))
             last == list[Len(list)]
         IN  IF last \in Range(front) THEN front ELSE Append(front, last)

\* sources is <<>> for undefined and <<list>> for an array
ResolveSources(sources, categories) ==
    IF sources # <<>> /\ Len(sources[1]) > 0 THEN sources[1]
    ELSE IF "all" \in Range(categories) THEN Registry
    ELSE Unique(FlatMapCategories(categories))

\* sourceAdapters[source]?.config.enabled throws a TypeError when
\* sourceAdapters[source] is neither nullish nor an adapter
FilterThrows(sourcesToQuery) == \E i \in 1..Len(sourcesToQuery) : sourcesToQuery[i] \in PrototypeKeys

IsEnabled(source) == source \in RegistrySet /\ enabled[source]

FilterEnabled(sourcesToQuery) == SelectSeq(sourcesToQuery, IsEnabled)

\* getSourceAdapter(source): "adapter", "null", or "other" for an inherited key
getSourceAdapter(source) ==
    IF source \in RegistrySet THEN "adapter"
    ELSE IF source \in PrototypeKeys THEN "other"
    ELSE "null"

(***************************************************************************)
(* lib/utils/cache.ts                                                      *)
(***************************************************************************)
\* createCacheKey('search', {query, categories, sources, limit})
createCacheKey(query, categories, sources, limit) ==
    [query |-> query, categories |-> categories, sources |-> sources, limit |-> limit]

\* cache.get(key): <<>> for null, <<data>> for a hit
CacheGet(store, key) == IF key \in DOMAIN store THEN <<store[key].data>> ELSE <<>>

\* cache.set(key, data, ttl)
CacheSet(store, key, data, ttl) ==
    [k \in DOMAIN store \cup {key} |->
        IF k = key THEN [data |-> data, ttl |-> ttl] ELSE store[k]]

SearchCacheTtl == 300000

(***************************************************************************)
(* The requests of the route handlers                                      *)
(***************************************************************************)
MaxSelected == 2         \* names in the sources list of a request
MaxAdapterResults == 4   \* results one adapter returns

\* a trim that leaves the string as it is
TrimNothing(str) == str

\* String.prototype.trim on the query strings of the model
Trim(str) ==
    CASE str = "  " -> ""
      [] str = " rust " -> "rust"
      [] OTHER -> str

\* query.toLowerCase().split(/\s+/)
Tokens(query) ==
    CASE query = "rust" -> <<"rust">>
      [] query = " rust " -> <<"", "rust", "">>
      [] OTHER -> <<query>>

\* a parameter is <<>> when it is absent and <<value>> when it is given
QueryParams == { <<>>, <<"">>, <<"  ">>, <<" rust ">> }

SourceNames == RegistrySet \cup {"nosuch"} \cup PrototypeKeys

SourceLists == UNION {[1..n -> SourceNames] : n \in 1..MaxSelected}

\* "misc" is a name categorySourceMap has no entry for
CategoryParams == { <<>>, <<<<"code">>>>, <<<<"web", "research">>>>, <<<<"misc">>>> }

LimitParams == { <<>>, <<-1>>, <<0>>, <<1>> }

DefaultLimit == 30

MaxPerSource == 5

\* the characters of the query strings of the requests
Chars(query) ==
    CASE query = "rust" -> QueryRust
      [] query = " rust " -> QueryRustPadded

\* classifyIntentLocal(query) for the queries of the requests
LocalIntents == [query \in {"rust", " rust "} |-> classifyIntentLocal(Chars(query))]

\* what the chat-completions call of classifyIntentWithAI can end with
RemoteOutcomes == { "rejected", "not_ok", "no_content", "bad_json", "parsed" }

RemoteIntent == [type |-> "tech", confidence |-> 900000]

\* the k-th result an adapter of `source` returns; every source's first result
\* is the same page
AdapterResult(source, k) ==
    [url |-> [scheme |-> "https", host |-> <<"x", "com">>,
              pathname |-> IF k = 1 THEN <<"p">> ELSE <<source, ToString(k)>>,
              search |-> ""],
     title |-> <<"rust", source, ToString(k)>>,
     description |-> <<source, "notes", ToString(k)>>,
     source |-> source,
     score |-> IF k = 1 THEN 900000 ELSE IF k = 2 THEN 500000 ELSE NoScore,
     timestamp |-> NoTimestamp]

\* the lists an adapter may resolve with
AdapterLists(source) ==
    { <<>>, [k \in 1..MaxAdapterResults |-> AdapterResult(source, k)] }

NewCall(source, timer) ==
    [source |-> source,
     fn     |-> "running",    \* running | returned | threw
     returned |-> <<>>,       \* the list adapter.search resolved with
     race   |-> "pending",    \* pending | data | timeout | error
     timer  |-> timer,        \* armed | fired | none
     data   |-> <<>>]         \* the value Promise.race resolved with

\* an earlier request, GET /api/search?q=rust&limit=0 without ai=true, as the
\* handler parsed it
EarlierRequest ==
    [query |-> "rust", categories |-> <<"all">>, sources |-> <<>>, limit |-> 0, ai |-> FALSE]

\* the cache after the earlier request, in which no adapter returned anything
EarlierCache(enabledNow) ==
    CacheSet(<<>>,
             createCacheKey(EarlierRequest.query, EarlierRequest.categories,
                            EarlierRequest.sources, EarlierRequest.limit),
             [status |-> 200, results |-> <<>>,
              totalSources |-> Cardinality({s \in RegistrySet : enabledNow[s]}),
              successfulSources |-> 0],
             SearchCacheTtl)

\* a request as it arrives (q, categoriesParam, sources, limitParam, ai,
\* source) with room for what the handler parses from it (query, categories,
\* limit)
Request(kind, q, selection, limitParam, ai, source) ==
    [kind |-> kind, q |-> q, categoriesParam |-> selection[1], sources |-> selection[2],
     limitParam |-> limitParam, ai |-> ai, source |-> source,
     query |-> "", categories |-> <<>>, limit |-> 0]

\* the categories and sources of a request: categories vary when no sources
\* are given (they are not read otherwise), and one request gives both
SelectionParams ==
    { <<categoriesParam, <<>>>> : categoriesParam \in CategoryParams }
        \cup { << <<>>, <<l>> >> : l \in SourceLists }
        \cup { << <<<<"web", "research">>>>, <<<<"github">>>> >> }

\* a JSON body can also carry sources: []
EmptySelection == << <<>>, << <<>> >> >>

Requests(queries, selections, limits) ==
    { Request("search_get", q, selection, l, ai, "") :
          q \in queries, selection \in selections, l \in limits, ai \in BOOLEAN }
      \cup { Request("search_post", q, selection, l, ai, "") :
          q \in queries, selection \in selections \cup {EmptySelection},
          l \in limits, ai \in BOOLEAN }
      \cup { Request("intent", q, <<<<>>, <<>>>>, <<>>, ai, "") : q \in queries, ai \in BOOLEAN }
      \cup { Request("source", q, <<<<>>, <<>>>>, l, FALSE, source) :
          q \in queries, l \in limits, source \in SourceNames }

AllRequests == Requests(QueryParams, SelectionParams, LimitParams)

\* the requests of the specification with fairness
FewRequests ==
    Requests({ <<>>, <<" rust ">> },
             { << <<>>, <<>> >>, << <<>>, << <<"github", "nosuch">> >> >> },
             { <<>> })

ApiStart(requests) ==
    /\ enabled \in { [s \in RegistrySet |-> TRUE], [s \in RegistrySet |-> s # "cve"] }
    /\ apiKey \in BOOLEAN
    /\ req \in requests
    /\ apiPc = "idle"
    /\ apiIntent = NoIntent
    /\ calls = <<>>
    /\ sa = NoSearch
    /\ ranked = <<>>
    /\ resp = NoResponse
    /\ cacheStore = EarlierCache(enabled)
    /\ hist = NoHistory
    /\ MergeIdle
    /\ RankIdle
    /\ IntentIdle
    /\ MoreIdle

ApiInit == ApiStart(AllRequests)

ErrorResponse(status) == [status |-> status, results |-> <<>>]

\* the handler returns an error response without doing anything else
Reject(request, status) ==
    /\ req' = request
    /\ apiPc' = "responded"
    /\ resp' = ErrorResponse(status)
    /\ UNCHANGED <<apiIntent, calls, sa, ranked, cacheStore, hist>>

\* searchAllSources(options) up to its await of parallelFetch: every adapter
\* of the filtered list is invoked and its timer is armed
EnterSearch(request, newHist) ==
    LET resolved == ResolveSources(request.sources, request.categories)
    IN  IF FilterThrows(resolved)
        THEN /\ apiPc' = "responded"
             /\ resp' = ErrorResponse(500)
             /\ sa' = [state |-> "rejected"]
             /\ calls' = <<>>
             /\ hist' = newHist
        ELSE LET sourcesToQuery == FilterEnabled(resolved)
             IN  /\ apiPc' = "fanout"
                 /\ resp' = resp
                 /\ sa' = [state |-> "pending"]
                 /\ calls' = [i \in 1..Len(sourcesToQuery) |-> NewCall(sourcesToQuery[i], "armed")]
                 /\ hist' = [newHist EXCEPT !.invoked = @ \o sourcesToQuery]

\* the handler after validation and the cache: classification, then the search
ClassifyThenSearch(request, newHist) ==
    IF request.ai /\ apiKey
    THEN /\ apiPc' = "classifying"
         /\ hist' = [newHist EXCEPT !.classifications = @ + 1]
         /\ UNCHANGED <<apiIntent, calls, sa, resp, ranked>>
    ELSE /\ apiIntent' = LocalIntents[request.query]
         /\ EnterSearch(request, [newHist EXCEPT !.classifications = @ + 1])
         /\ UNCHANGED ranked

\* searchParams.get(name) followed by parseInt, or the default
LimitOr(limitParam, default) == IF limitParam = <<>> THEN default ELSE limitParam[1]

CategoriesOrAll(categoriesParam) ==
    IF categoriesParam = <<>> THEN <<"all">> ELSE categoriesParam[1]

\* GET /api/search
SearchGet ==
    /\ apiPc = "idle"
    /\ req.kind = "search_get"
    /\ LET query == IF req.q = <<>> THEN "" ELSE Trim(req.q[1])
           categories == CategoriesOrAll(req.categoriesParam)
           limit == LimitOr(req.limitParam, DefaultLimit)
           request == [req EXCEPT !.query = query, !.categories = categories, !.limit = limit]
           cacheKey == createCacheKey(query, categories, req.sources, limit)
           afterGet == [hist EXCEPT !.cacheReads = @ + 1]
       IN  IF query = "" THEN Reject(request, 400)
           ELSE IF CacheGet(cacheStore, cacheKey) # <<>>
           THEN /\ req' = request
                /\ apiPc' = "responded"
                /\ resp' = CacheGet(cacheStore, cacheKey)[1]
                /\ hist' = afterGet
                /\ UNCHANGED <<apiIntent, calls, sa, ranked, cacheStore>>
           ELSE /\ req' = request
                /\ ClassifyThenSearch(request, afterGet)
                /\ UNCHANGED cacheStore
    /\ UNCHANGED <<enabled, apiKey, mergeVars, rankVars, intentVars, moreVars>>

\* POST /api/search: the body's query is used as it is, untrimmed
SearchPost ==
    /\ apiPc = "idle"
    /\ req.kind = "search_post"
    /\ LET request == [req EXCEPT !.query = IF req.q = <<>> THEN "" ELSE req.q[1],
                                  !.categories = CategoriesOrAll(req.categoriesParam),
                                  !.limit = LimitOr(req.limitParam, DefaultLimit)]
       IN  IF req.q = <<>> \/ Trim(req.q[1]) = "" THEN Reject(request, 400)
           ELSE /\ req' = request
                /\ ClassifyThenSearch(request, hist)
                /\ UNCHANGED cacheStore
    /\ UNCHANGED <<enabled, apiKey, mergeVars, rankVars, intentVars, moreVars>>

\* GET /api/intent
IntentGet ==
    /\ apiPc = "idle"
    /\ req.kind = "intent"
    /\ LET query == IF req.q = <<>> THEN "" ELSE Trim(req.q[1])
           request == [req EXCEPT !.query = query]
       IN  IF query = "" THEN Reject(request, 400)
           ELSE /\ req' = request
                /\ hist' = [hist EXCEPT !.classifications = @ + 1]
                /\ IF req.ai /\ apiKey
                   THEN /\ apiPc' = "classifying"
                        /\ UNCHANGED <<apiIntent, resp>>
                   ELSE /\ apiPc' = "responded"
                        /\ apiIntent' = LocalIntents[query]
                        /\ resp' = [status |-> 200, intent |-> apiIntent']
                /\ UNCHANGED <<calls, sa, ranked, cacheStore>>
    /\ UNCHANGED <<enabled, apiKey, mergeVars, rankVars, intentVars, moreVars>>

SourceDefaultLimit == 10

\* GET /api/sources/[source]
SourceGet ==
    /\ apiPc = "idle"
    /\ req.kind = "source"
    /\ LET query == IF req.q = <<>> THEN "" ELSE Trim(req.q[1])
           request == [req EXCEPT !.query = query,
                                  !.limit = LimitOr(req.limitParam, SourceDefaultLimit)]
           adapter == getSourceAdapter(req.source)
       IN  IF query = "" THEN Reject(request, 400)
           ELSE IF adapter = "null" THEN Reject(request, 404)
           ELSE IF adapter = "other" THEN Reject(request, 500)
           ELSE IF ~enabled[req.source] THEN Reject(request, 503)
           ELSE /\ req' = request
                /\ apiPc' = "sourcing"
                /\ calls' = <<NewCall(req.source, "none")>>
                /\ hist' = [hist EXCEPT !.invoked = Append(@, req.source)]
                /\ UNCHANGED <<apiIntent, sa, ranked, resp, cacheStore>>
    /\ UNCHANGED <<enabled, apiKey, mergeVars, rankVars, intentVars, moreVars>>

\* the chat-completions request of classifyIntentWithAI settles
ClassifySettles ==
    /\ apiPc = "classifying"
    /\ \E outcome \in RemoteOutcomes :
          /\ apiIntent' = IF outcome = "parsed" THEN RemoteIntent
                          ELSE LocalIntents[req.query]
          /\ IF req.kind = "intent"
             THEN /\ apiPc' = "responded"
                  /\ resp' = [status |-> 200, intent |-> apiIntent']
                  /\ UNCHANGED <<calls, sa, hist>>
             ELSE EnterSearch(req, hist)
    /\ UNCHANGED <<enabled, apiKey, req, ranked, cacheStore, mergeVars, rankVars, intentVars, moreVars>>

\* adapter.search of call i resolves with `list`; the race takes it unless
\* the timer has settled it already
AdapterReturn(i) ==
    /\ i \in 1..Len(calls)
    /\ calls[i].fn = "running"
    /\ \E list \in AdapterLists(calls[i].source) :
          calls' = [calls EXCEPT ![i] =
                       IF @.race = "pending"
                       THEN [@ EXCEPT !.fn = "returned", !.returned = list,
                                      !.race = "data", !.data = list]
                       ELSE [@ EXCEPT !.fn = "returned", !.returned = list]]
    /\ UNCHANGED <<enabled, apiKey, req, apiPc, apiIntent, sa, ranked, resp, cacheStore,
                   hist, mergeVars, rankVars, intentVars, moreVars>>

\* what a rejection of adapter.search does to the call: the fetcher of
\* searchAllSources catches it and returns [], the single-source route does not
Failed(call, how) ==
    IF call.race # "pending" THEN [call EXCEPT !.fn = how]
    ELSE IF call.timer = "none" THEN [call EXCEPT !.fn = how, !.race = "error"]
    ELSE [call EXCEPT !.fn = how, !.race = "data", !.data = <<>>]

\* adapter.search of call i rejects: the adapter throws, or the timer of its
\* own fetchWithTimeout aborts its request
AdapterThrow(i) ==
    /\ i \in 1..Len(calls)
    /\ calls[i].fn = "running"
    /\ calls' = [calls EXCEPT ![i] = Failed(@, "threw")]
    /\ UNCHANGED <<enabled, apiKey, req, apiPc, apiIntent, sa, ranked, resp, cacheStore,
                   hist, mergeVars, rankVars, intentVars, moreVars>>

\* a timer whose callback settles nothing
TimerFireSilently(i) ==
    /\ i \in 1..Len(calls)
    /\ calls[i].timer = "armed"
    /\ calls' = [calls EXCEPT ![i] = [@ EXCEPT !.timer = "fired"]]
    /\ UNCHANGED <<enabled, apiKey, req, apiPc, apiIntent, sa, ranked, resp, cacheStore,
                   hist, mergeVars, rankVars, intentVars, moreVars>>

\* parallelFetch: the setTimeout callback of call i runs and rejects
\* timeoutPromise; nothing is told to fn, and the timer is never cleared
TimerFire(i) ==
    /\ i \in 1..Len(calls)
    /\ calls[i].timer = "armed"
    /\ calls' = [calls EXCEPT ![i] =
                    IF @.race = "pending"
                    THEN [@ EXCEPT !.timer = "fired", !.race = "timeout"]
                    ELSE [@ EXCEPT !.timer = "fired"]]
    /\ UNCHANGED <<enabled, apiKey, req, apiPc, apiIntent, sa, ranked, resp, cacheStore,
                   hist, mergeVars, rankVars, intentVars, moreVars>>

\* a collection that keeps every resolved list, the empty ones too
CollectAnyData(fetchResults) ==
    WithValue(SelectSeq(fetchResults, LAMBDA r : r.race = "data"),
              LAMBDA kept : [i \in 1..Len(kept) |-> kept[i].data])

\* a collection that takes what every adapter returned, whenever it returned
CollectReturned(fetchResults) ==
    WithValue(SelectSeq(fetchResults, LAMBDA r : r.fn = "returned" /\ Len(r.returned) > 0),
              LAMBDA kept : [i \in 1..Len(kept) |-> kept[i].returned])

\* searchAllSources: the lists handed to mergeResults
Collect(fetchResults) ==
    WithValue(SelectSeq(fetchResults, LAMBDA r : r.race = "data" /\ Len(r.data) > 0),
              LAMBDA kept : [i \in 1..Len(kept) |-> kept[i].data])

\* a count of the successes that takes every call settled with data, the empty
\* lists too
SearchResultCountingSettled(fetchResults, limit) ==
    WithValue(Collect(fetchResults), LAMBDA allResults :
        [state |-> "resolved",
         allResults |-> allResults,
         results |-> Slice0(mergeResults(allResults), limit * 5),
         sourcesQueried |-> Len(fetchResults),
         sourcesSucceeded |-> Len(SelectSeq(fetchResults, LAMBDA r : r.race = "data"))])

\* searchAllSources after its await of parallelFetch
SearchResult(fetchResults, limit) ==
    WithValue(Collect(fetchResults), LAMBDA allResults :
        [state |-> "resolved",
         allResults |-> allResults,
         results |-> Slice0(mergeResults(allResults), limit * 5),
         sourcesQueried |-> Len(fetchResults),
         sourcesSucceeded |-> Len(allResults)])

\* the route after fullRankingPipeline: diversify, cap, cache, respond
Finish(list, searchResult) ==
    \E response \in {[status |-> 200,
                      results |-> Slice0(diversifyResults(list, MaxPerSource), req.limit),
                      totalSources |-> searchResult.sourcesQueried,
                      successfulSources |-> searchResult.sourcesSucceeded]} :
        /\ apiPc' = "responded"
        /\ resp' = response
        /\ cacheStore' =
              IF req.kind = "search_get"
              THEN CacheSet(cacheStore,
                            createCacheKey(req.query, req.categories, req.sources, req.limit),
                            response, SearchCacheTtl)
              ELSE cacheStore

\* Promise.all of parallelFetch resolves once every race has settled; the
\* route goes on through fullRankingPipeline up to its first await
SearchAllResolve ==
    /\ apiPc = "fanout"
    /\ \A i \in 1..Len(calls) : calls[i].race # "pending"
    /\ \E searchResult \in {SearchResult(calls, req.limit)} :
       \E first \in {rankResults(searchResult.results, apiIntent)} :
           /\ sa' = searchResult
           /\ IF Len(searchResult.results) = 0
              THEN /\ Finish(searchResult.results, searchResult)
                   /\ UNCHANGED ranked
              ELSE IF req.ai /\ apiKey
              THEN /\ ranked' = first
                   /\ apiPc' = "embedding"
                   /\ UNCHANGED <<resp, cacheStore>>
              ELSE /\ ranked' = first
                   /\ Finish(rerankWithLocalSimilarity(Tokens(req.query), first), searchResult)
    /\ UNCHANGED <<enabled, apiKey, req, apiIntent, calls, hist, mergeVars, rankVars, intentVars, moreVars>>

\* the answers of the embeddings endpoint for n texts: none, one vector per
\* text, or two vectors only
ApiEmbeddingResponses(n) ==
    { NoEmbeddings, [i \in 1..n |-> <<1, 0>>], [i \in 1..2 |-> <<1, 0>>] }

\* the embeddings request of getEmbeddings settles
EmbeddingsSettle ==
    /\ apiPc = "embedding"
    /\ LET topResults == Slice0(ranked, RerankTop)
           rest == SubSeq(ranked, Len(topResults) + 1, Len(ranked))
       IN  \E embeddings \in ApiEmbeddingResponses(Len(topResults) + 1) :
              IF Len(embeddings) >= 2 /\ Len(embeddings) < Len(topResults) + 1
              THEN /\ apiPc' = "responded"
                   /\ resp' = ErrorResponse(500)
                   /\ UNCHANGED cacheStore
              ELSE Finish(rerankWithEmbeddings(topResults, embeddings) \o rest, sa)
    /\ UNCHANGED <<enabled, apiKey, req, apiIntent, calls, sa, ranked, hist, mergeVars, rankVars, intentVars, moreVars>>

\* the single-source route after its await of adapter.search
SourceSettle ==
    /\ apiPc = "sourcing"
    /\ calls[1].race # "pending"
    /\ apiPc' = "responded"
    /\ resp' = IF calls[1].race = "data"
               THEN [status |-> 200, results |-> calls[1].data]
               ELSE ErrorResponse(500)
    /\ UNCHANGED <<enabled, apiKey, req, apiIntent, calls, sa, ranked, cacheStore, hist,
                   mergeVars, rankVars, intentVars, moreVars>>

ApiNext ==
    \/ SearchGet
    \/ SearchPost
    \/ IntentGet
    \/ SourceGet
    \/ ClassifySettles
    \/ \E i \in 1..Len(calls) : AdapterReturn(i)
    \/ \E i \in 1..Len(calls) : AdapterThrow(i)
    \/ \E i \in 1..Len(calls) : TimerFire(i)
    \/ SearchAllResolve
    \/ EmbeddingsSettle
    \/ SourceSettle

SpecApi == ApiInit /\ [][ApiNext]_vars

\* the indices a call of the model can have
CallSlots == 1..(Len(Registry) + MaxSelected)

\* The event loop runs every timer callback that is due and every promise
\* continuation that is ready; nothing makes an adapter or a remote service
\* answer.
FairInit == ApiStart(FewRequests)

FairApi ==
    /\ FairInit
    /\ [][ApiNext]_vars
    /\ WF_vars(SearchAllResolve)
    /\ WF_vars(SourceSettle)
    /\ \A i \in CallSlots : WF_vars(TimerFire(i))

(***************************************************************************)
(* Properties of the request handlers                                      *)
(***************************************************************************)
IsSearch == req.kind \in {"search_get", "search_post"}

\* call i returned a non-empty list before its timer expired
InTime(i) ==
    /\ calls[i].fn = "returned"
    /\ calls[i].returned # <<>>
    /\ calls[i].race = "data"

InTimeCalls == SelectSeq(calls, LAMBDA c : c.fn = "returned" /\ c.returned # <<>> /\ c.race = "data")

\* C1: once searchAllSources has resolved, the lists handed to the merger are
\* exactly the lists of the adapters that returned a non-empty list before
\* their timeout, in call order, and sourcesSucceeded counts exactly those; an
\* adapter that threw or timed out contributes nothing; when no adapter
\* succeeded the results are empty and sourcesSucceeded is 0; and the call
\* does not reject once an adapter has been invoked.
C1_FaultIsolation ==
    /\ (IsSearch /\ sa.state = "resolved") =>
          /\ sa.allResults = [k \in 1..Len(InTimeCalls) |-> InTimeCalls[k].returned]
          /\ sa.sourcesSucceeded = Cardinality({i \in 1..Len(calls) : InTime(i)})
          /\ sa.sourcesQueried = Len(calls)
          /\ (\A i \in 1..Len(calls) : ~InTime(i)) =>
                (sa.results = <<>> /\ sa.sourcesSucceeded = 0)
    /\ (IsSearch /\ calls # <<>>) => sa.state # "rejected"

\* searchAllSources resolved although one adapter threw, one timed out and is
\* still running, and a third returned results in time
C1_Witness ==
    /\ IsSearch
    /\ sa.state = "resolved"
    /\ \E i, j, k \in 1..Len(calls) :
          /\ calls[i].fn = "threw" /\ calls[i].race = "data"
          /\ calls[j].fn = "running" /\ calls[j].race = "timeout"
          /\ InTime(k)
    /\ sa.sourcesSucceeded = 1
    /\ Len(sa.results) > 0

\* C5: when the per-source timer of the orchestrator expires for a call, that
\* call is aborted: it is no longer running once its race has timed out.
C5_ExpiryAbortsTheCall ==
    \A i \in 1..Len(calls) : calls[i].race = "timeout" => calls[i].fn # "running"

\* C6: every fan-out of searchAllSources is followed by its resolution,
\* whatever the adapters do, also when some adapter never settles.
C6_SearchAllResolves == (apiPc = "fanout") ~> (sa.state = "resolved")

\* searchAllSources resolved while an adapter call had not settled
C6_Witness ==
    /\ sa.state = "resolved"
    /\ \E i \in 1..Len(calls) : calls[i].fn = "running" /\ calls[i].timer = "fired"

\* C7: a request waiting for the remote classification or for the embeddings
\* eventually completes, also when the remote service never responds.
C7_RemoteCallsBounded == (apiPc \in {"classifying", "embedding"}) ~> (apiPc = "responded")

\* C8: the response of a top-level search holds at most `limit` results.
C8_ResultsCappedToLimit ==
    (IsSearch /\ apiPc = "responded" /\ resp.status = 200) =>
        Len(resp.results) <= req.limit

\* the request names a source that is not registered or is disabled
NamesBadSource ==
    \/ /\ IsSearch
       /\ req.sources # <<>>
       /\ \E i \in 1..Len(req.sources[1]) : ~IsEnabled(req.sources[1][i])
    \/ /\ req.kind = "source"
       /\ ~IsEnabled(req.source)

\* C9: a request that names an unknown or a disabled source invokes no adapter
\* and is answered with an error.
C9_BadSourceRejected ==
    NamesBadSource =>
        /\ hist.invoked = <<>>
        /\ apiPc = "responded" => resp.status >= 400

BlankQueries == { <<>>, <<"">>, <<"  ">> }

\* C10: a search, intent or single-source request whose query is missing,
\* empty or blank is answered 400 with no cache read, no classification and no
\* adapter invoked.
C10_BlankQueryRejected ==
    (apiPc # "idle" /\ req.q \in BlankQueries) =>
        /\ apiPc = "responded"
        /\ resp.status = 400
        /\ hist = NoHistory
        /\ calls = <<>>
        /\ cacheStore = EarlierCache(enabled)

\* a GET search with a blank query has been answered
C10_Witness ==
    /\ req.kind = "search_get"
    /\ req.q = <<"  ">>
    /\ apiPc = "responded"
    /\ resp.status = 400

\* C23: once searchAllSources has resolved, sourcesQueried is the number of
\* adapter invocations made and sourcesSucceeded the number of them that
\* returned a non-empty list before their timeout; so 0 <= sourcesSucceeded <=
\* sourcesQueried, and results is non-empty only if sourcesSucceeded >= 1
C23_SourceCounts ==
    (IsSearch /\ sa.state = "resolved") =>
        /\ sa.sourcesQueried = Len(hist.invoked)
        /\ \A i \in 1..Len(calls) : calls[i].source = hist.invoked[i]
        /\ sa.sourcesSucceeded =
              Cardinality({i \in 1..Len(hist.invoked) :
                  calls[i].returned # <<>> /\ calls[i].race = "data"})
        /\ 0 <= sa.sourcesSucceeded
        /\ sa.sourcesSucceeded <= sa.sourcesQueried
        /\ sa.results # <<>> => sa.sourcesSucceeded >= 1

\* three adapters were invoked; one returned results in time, one returned an
\* empty list, and one returned results after its timer had fired
C23_Witness ==
    /\ IsSearch
    /\ sa.state = "resolved"
    /\ sa.sourcesQueried = 3
    /\ sa.sourcesSucceeded = 1
    /\ \E i, j \in 1..Len(calls) :
          /\ calls[i].fn = "returned" /\ calls[i].returned = <<>> /\ calls[i].race = "data"
          /\ calls[j].fn = "returned" /\ calls[j].returned # <<>> /\ calls[j].race = "timeout"

\* the source set the text resolves a request to: the explicit list when one
\* is given, else the union of the mappings of its categories, else, when that
\* selects nothing, every registered source
StatedSources(request) ==
    IF request.sources # <<>> /\ request.sources[1] # <<>>
    THEN Range(request.sources[1])
    ELSE LET mapped == UNION {Range(getSourcesForCategory(request.categories[c])) :
                                 c \in 1..Len(request.categories)}
         IN  IF mapped # {} THEN mapped ELSE RegistrySet

\* C24: the adapters searchAllSources invokes are exactly the enabled adapters
\* of the source set the request resolves to, and no disabled or unregistered
\* source is invoked
C24_InvokesResolvedEnabled ==
    (IsSearch /\ sa.state \in {"pending", "resolved"}) =>
        /\ Range(hist.invoked) = {s \in StatedSources(req) : IsEnabled(s)}
        /\ \A i \in 1..Len(hist.invoked) : IsEnabled(hist.invoked[i])

\* the response of a GET search was taken from the cache
ServedFromCache ==
    /\ req.kind = "search_get"
    /\ apiPc = "responded"
    /\ resp.status = 200
    /\ hist.cacheReads = 1
    /\ hist.classifications = 0

\* C26: a search answered from the cache has the query, the categories, the
\* sources, the limit and the AI mode of the request that stored the entry
C26_CacheKeyedByAllParameters ==
    ServedFromCache =>
        /\ req.query = EarlierRequest.query
        /\ req.categories = EarlierRequest.categories
        /\ req.sources = EarlierRequest.sources
        /\ req.limit = EarlierRequest.limit
        /\ req.ai = EarlierRequest.ai

(***************************************************************************)
(* lib/utils/cache.ts: MemoryCache with the clock                          *)
(***************************************************************************)
DefaultTtl == 300000     \* defaultTTL, in milliseconds

ShortTtl == 1000         \* a ttl a caller of set passes, in milliseconds

\* the key GET /api/search stores its response under, and a key of another
\* caller of the cache
SearchKey == "search"

CacheKeys == { SearchKey, "other" }

CacheData == { "first", "second" }

\* the times at which the model looks at the clock: around one ShortTtl and one
\* DefaultTtl after 0 and after 1001
ClockTimes == { 0, 1000, 1001, 2001, 2002, 300000, 300001, 301001, 301002 }

\* Map.prototype.delete
MapDelete(map, key) == [k \in DOMAIN map \ {key} |-> map[k]]

\* Map.prototype.set
MapSet(map, key, value) == [k \in DOMAIN map \cup {key} |-> IF k = key THEN value ELSE map[k]]

\* get that hands out an entry however old it is
MemoryCacheGetWhateverAge(map, key, now) ==
    IF key \notin DOMAIN map THEN [value |-> <<>>, cache |-> map]
    ELSE [value |-> <<map[key].data>>, cache |-> map]

\* MemoryCache.get(key) at the time now: what it returns (<<>> for null,
\* <<data>> for a hit) and the Map it leaves
MemoryCacheGet(map, key, now) ==
    IF key \notin DOMAIN map THEN [value |-> <<>>, cache |-> map]
    ELSE IF now - map[key].timestamp > map[key].ttl
         THEN [value |-> <<>>, cache |-> MapDelete(map, key)]
         ELSE [value |-> <<map[key].data>>, cache |-> map]

\* MemoryCache.set(key, data, ttl) at the time now: the Map it leaves
MemoryCacheSet(map, key, data, ttl, now) ==
    MapSet(map, key, [data |-> data, timestamp |-> now, ttl |-> ttl])

CacheInit ==
    /\ mcCache = <<>>
    /\ mcNow = 0
    /\ mcWritten = <<>>
    /\ mcLast = NoCacheCall
    /\ MergeIdle
    /\ RankIdle
    /\ ApiIdle
    /\ IntentIdle
    /\ SuggestIdle
    /\ HookIdle

\* time passes: Date.now() never goes back
ClockAdvances ==
    /\ \E t \in ClockTimes : t > mcNow /\ mcNow' = t
    /\ UNCHANGED <<mcCache, mcWritten, mcLast>>
    /\ UNCHANGED <<mergeVars, rankVars, apiVars, intentVars, suggestVars, hookVars>>

\* a caller runs cache.get(key)
CacheGetCall ==
    /\ \E key \in CacheKeys :
          LET got == MemoryCacheGet(mcCache, key, mcNow)
          IN  /\ mcCache' = got.cache
              /\ mcLast' = [op |-> "get", key |-> key, at |-> mcNow, value |-> got.value]
    /\ UNCHANGED <<mcNow, mcWritten>>
    /\ UNCHANGED <<mergeVars, rankVars, apiVars, intentVars, suggestVars, hookVars>>

\* what a call of set leaves behind
CacheStores(key, data, ttl) ==
    /\ mcCache' = MemoryCacheSet(mcCache, key, data, ttl, mcNow)
    /\ mcWritten' = MapSet(mcWritten, key, [data |-> data, at |-> mcNow, ttl |-> ttl])
    /\ mcLast' = [op |-> "set", key |-> key, at |-> mcNow, value |-> <<data>>]
    /\ UNCHANGED mcNow
    /\ UNCHANGED <<mergeVars, rankVars, apiVars, intentVars, suggestVars, hookVars>>

\* withCache stores a result: cache.set(key, result, ttl), ttl left out or given
CacheSetCall ==
    \E data \in CacheData, ttl \in {ShortTtl, DefaultTtl} :
        CacheStores("other", data, ttl)

\* GET /api/search stores its response: cache.set(cacheKey, response, 5 * 60 * 1000)
SearchStoresResponse ==
    \E data \in CacheData : CacheStores(SearchKey, data, SearchCacheTtl)

CacheNext ==
    \/ ClockAdvances
    \/ CacheGetCall
    \/ CacheSetCall
    \/ SearchStoresResponse

SpecCache == CacheInit /\ [][CacheNext]_vars

\* C28: a value cache.get returns is the one the last set of the key stored,
\* and no more than its ttl has passed since; a get later than that returns
\* null and leaves no entry under the key; a set leaves the new data under
\* the key with the ttl counted from the time of the set; a response of
\* GET /api/search is returned by a get no later than 5 minutes after it was
\* stored
C28_NeverServesExpired ==
    /\ (mcLast.op = "get" /\ mcLast.value # <<>>) =>
          /\ mcLast.key \in DOMAIN mcWritten
          /\ mcLast.value = <<mcWritten[mcLast.key].data>>
          /\ mcLast.at - mcWritten[mcLast.key].at <= mcWritten[mcLast.key].ttl
          /\ mcLast.key = SearchKey => mcLast.at - mcWritten[mcLast.key].at <= 5 * 60 * 1000
    /\ (/\ mcLast.op = "get"
        /\ mcLast.key \in DOMAIN mcWritten
        /\ mcLast.at - mcWritten[mcLast.key].at > mcWritten[mcLast.key].ttl) =>
          /\ mcLast.value = <<>>
          /\ mcLast.key \notin DOMAIN mcCache
    /\ mcLast.op = "set" =>
          /\ mcLast.key \in DOMAIN mcCache
          /\ mcCache[mcLast.key] = [data |-> mcLast.value[1], timestamp |-> mcLast.at,
                                    ttl |-> mcWritten[mcLast.key].ttl]

\* a get one millisecond after the ttl of a search response has passed returned
\* null and removed the entry
C28_Witness ==
    /\ mcLast.op = "get"
    /\ mcLast.key = SearchKey
    /\ SearchKey \in DOMAIN mcWritten
    /\ mcLast.at - mcWritten[SearchKey].at = SearchCacheTtl + 1
    /\ mcLast.value = <<>>
    /\ SearchKey \notin DOMAIN mcCache

(***************************************************************************)
(* Adapters that return after their timer in parallelFetch has fired       *)
(***************************************************************************)
\* call i lost its race to the timer and adapter.search resolved afterwards
\* with a list that is not empty
LateReturn(i) ==
    /\ calls[i].race = "timeout"
    /\ calls[i].fn = "returned"
    /\ calls[i].returned # <<>>

\* no call of the source settled its race with data
OnlyLate(source) ==
    \A j \in 1..Len(calls) : calls[j].source = source => calls[j].race # "data"

\* the step in which adapter.search of a call resolves after its timer fired
LateReturnStep ==
    \E i \in 1..Len(calls) :
        /\ calls[i].race = "timeout"
        /\ calls[i].fn = "running"
        /\ Len(calls') = Len(calls)
        /\ calls'[i].fn = "returned"

\* C29: a list an adapter returns after its timer in parallelFetch has fired
\* is in no list handed to mergeResults, no result of a source whose calls all
\* lost their race is in the results of searchAllSources or of the response,
\* sourcesSucceeded counts only the calls that won their race with a list that
\* is not empty, and the step of the late return changes neither what
\* searchAllSources resolved with, nor the response, nor the cache
C29_LateResultsDiscarded ==
    /\ [](\A i \in 1..Len(calls) :
            (IsSearch /\ sa.state = "resolved" /\ LateReturn(i) /\ OnlyLate(calls[i].source)) =>
                /\ \A k \in 1..Len(sa.allResults) :
                      \A n \in 1..Len(sa.allResults[k]) :
                          sa.allResults[k][n].source # calls[i].source
                /\ \A k \in 1..Len(sa.results) : sa.results[k].source # calls[i].source
                /\ sa.sourcesSucceeded =
                      Cardinality({j \in 1..Len(calls) :
                          ~LateReturn(j) /\ calls[j].race = "data" /\ calls[j].data # <<>>})
                /\ (apiPc = "responded" /\ resp.status = 200) =>
                      \A k \in 1..Len(resp.results) : resp.results[k].source # calls[i].source)
    /\ [][LateReturnStep =>
             /\ sa' = sa
             /\ resp' = resp
             /\ ranked' = ranked
             /\ cacheStore' = cacheStore
             /\ apiPc' = apiPc
             /\ \A j \in 1..Len(calls) :
                   calls'[j].race = calls[j].race /\ calls'[j].data = calls[j].data]_vars

\* the response was returned with the results of one source while another
\* source, whose timer had fired, returned its list late
C29_Witness ==
    /\ IsSearch
    /\ apiPc = "responded"
    /\ resp.status = 200
    /\ sa.state = "resolved"
    /\ sa.sourcesSucceeded = 1
    /\ \E i \in 1..Len(calls) : LateReturn(i) /\ OnlyLate(calls[i].source)

(***************************************************************************)
(* hooks/use-search.ts: useSearch                                          *)
(***************************************************************************)
MaxSearches == 4         \* calls of search() that reach fetch

\* the query in the closure of the search callback that is called
HookQueries == { "  ", "rust" }

\* search() up to its await of fetch: the controller of request n
NewRequest(n) ==
    [id      |-> n,
     pc      |-> "fetching",     \* fetching | reading | done
     aborted |-> FALSE,          \* controller.signal.aborted
     superseded |-> FALSE]       \* search() was called again while it was in flight

\* abortControllerRef.current.abort(), when there is a controller
AbortPrevious(requests, current) ==
    IF current = 0 THEN requests
    ELSE [requests EXCEPT ![current] =
             [@ EXCEPT !.aborted = TRUE,
                       !.superseded = @ \/ requests[current].pc # "done"]]

HookInit ==
    /\ hkRequests = <<>>
    /\ hkAbortControllerRef = 0
    /\ hkResults = 0
    /\ hkResponse = 0
    /\ hkError = 0
    /\ hkIsLoading = FALSE
    /\ MergeIdle
    /\ RankIdle
    /\ ApiIdle
    /\ IntentIdle
    /\ SuggestIdle
    /\ CacheIdle

\* search() is called: it returns at once for a blank query; otherwise it
\* aborts the previous controller, installs its own, sets isLoading and clears
\* error, and awaits fetch
Search ==
    /\ Len(hkRequests) < MaxSearches
    /\ \E query \in HookQueries :
          IF Trim(query) = ""
          THEN UNCHANGED <<hkRequests, hkAbortControllerRef, hkIsLoading, hkError>>
          ELSE /\ hkRequests' = Append(AbortPrevious(hkRequests, hkAbortControllerRef),
                                       NewRequest(Len(hkRequests) + 1))
               /\ hkAbortControllerRef' = Len(hkRequests) + 1
               /\ hkIsLoading' = TRUE
               /\ hkError' = 0
    /\ UNCHANGED <<hkResults, hkResponse>>
    /\ UNCHANGED <<mergeVars, rankVars, apiVars, intentVars, suggestVars, cacheVars>>

\* the catch and finally blocks of request i: an AbortError is ignored, any
\* other error is shown and empties results; finally clears isLoading
Caught(i, abortError) ==
    /\ hkRequests' = [hkRequests EXCEPT ![i] = [@ EXCEPT !.pc = "done"]]
    /\ IF abortError
       THEN UNCHANGED <<hkError, hkResults>>
       ELSE hkError' = i /\ hkResults' = 0
    /\ hkIsLoading' = FALSE
    /\ UNCHANGED <<hkResponse, hkAbortControllerRef>>

\* the fetch of request i settles: rejected with AbortError when its signal was
\* aborted, otherwise rejected, answered with a status that is not ok, or
\* answered ok, after which res.json() is awaited
FetchSettles(i) ==
    /\ i \in 1..Len(hkRequests)
    /\ hkRequests[i].pc = "fetching"
    /\ IF hkRequests[i].aborted THEN Caught(i, TRUE)
       ELSE \E outcome \in {"rejected", "not_ok", "ok"} :
               IF outcome = "ok"
               THEN /\ hkRequests' = [hkRequests EXCEPT ![i] = [@ EXCEPT !.pc = "reading"]]
                    /\ UNCHANGED <<hkAbortControllerRef, hkResults, hkResponse, hkError,
                                   hkIsLoading>>
               ELSE Caught(i, FALSE)
    /\ UNCHANGED <<mergeVars, rankVars, apiVars, intentVars, suggestVars, cacheVars>>

\* res.json() of request i settles: rejected with AbortError when its signal
\* was aborted, otherwise rejected for a body that is not JSON, or resolved,
\* after which the data is shown and finally clears isLoading
JsonSettles(i) ==
    /\ i \in 1..Len(hkRequests)
    /\ hkRequests[i].pc = "reading"
    /\ IF hkRequests[i].aborted THEN Caught(i, TRUE)
       ELSE \E outcome \in {"rejected", "data"} :
               IF outcome = "data"
               THEN /\ hkRequests' = [hkRequests EXCEPT ![i] = [@ EXCEPT !.pc = "done"]]
                    /\ hkResults' = i
                    /\ hkResponse' = i
                    /\ hkIsLoading' = FALSE
                    /\ UNCHANGED <<hkAbortControllerRef, hkError>>
               ELSE Caught(i, FALSE)
    /\ UNCHANGED <<mergeVars, rankVars, apiVars, intentVars, suggestVars, cacheVars>>

HookNext ==
    \/ Search
    \/ \E i \in 1..Len(hkRequests) : FetchSettles(i)
    \/ \E i \in 1..Len(hkRequests) : JsonSettles(i)

SpecHook == HookInit /\ [][HookNext]_vars

\* the results and the response shown are not those of a request that was in
\* flight when search() was called again
NeverShowsSuperseded ==
    /\ hkResults # 0 => ~hkRequests[hkResults].superseded
    /\ hkResponse # 0 => ~hkRequests[hkResponse].superseded

\* C30: in useSearch, whatever the calls of search() and the order in which
\* their requests settle, the results and the response shown are not those of
\* a request superseded by a later call of search(), and isLoading is true
\* while the request started last is in flight
C30_LatestRequestWins ==
    /\ NeverShowsSuperseded
    /\ (hkRequests # <<>> /\ hkRequests[Len(hkRequests)].pc # "done") => hkIsLoading

====
